---- MODULE Spec2Model ----
\* Verification model of the hollow-toolbox authentication middleware:
\* ginjwt.Middleware (token verification, scope check, JWKS cache) and
\* ginauth.MultiTokenMiddleware (concurrent verification by several verifiers),
\* and of the events packages: the controller registry over a NATS key-value
\* bucket and the validation of the NATS stream parameters.
EXTENDS Integers, Sequences, FiniteSets, TLC

\* ------------------------------------------------------------------ bounds

\* key ids are 1..MaxKid; key id 0 is the empty key id ""
MaxKid == 2
\* key materials (distinct key pairs) are 1..MaxMat
MaxMat == 2
\* token times are offsets from time.Now(), in minutes, in -MaxSkew..MaxSkew
MaxSkew == 2
\* the composer holds 0..MaxVerifiers verifiers
MaxVerifiers == 2
\* the revisions (stream sequences) of the registry bucket are 1..MaxRev
MaxRev == 4
\* the UUIDs uuid.New() draws are 0..MaxUUID
MaxUUID == 1

\* ------------------------------------------------------- program constants

StatusOK == 200
StatusUnauthorized == 401
StatusForbidden == 403
expectedAuthHeaderParts == 2
\* jwt.DefaultLeeway of go-jose, applied by Claims.Validate, in minutes
DefaultLeeway == 1

\* ----------------------------------------------------------------- strings

\* A string is a sequence of characters; "" is << >>.
EmptyString == << >>

Max(a, b) == IF a >= b THEN a ELSE b

\* the position of the first occurrence of sep in s, or 0
RECURSIVE IndexFrom(_, _, _)
IndexFrom(s, sep, i) ==
    IF i > Len(s) THEN 0
    ELSE IF s[i] = sep THEN i
    ELSE IndexFrom(s, sep, i + 1)

Index(s, sep) == IndexFrom(s, sep, 1)

\* strings.Split(s, sep) for a one-character separator: every separator ends a
\* part, so "" gives <<"">> and "a  b" gives <<"a", "", "b">>
RECURSIVE Split(_, _)
Split(s, sep) ==
    LET i == Index(s, sep) IN
    IF i = 0 THEN << s >>
    ELSE << SubSeq(s, 1, i - 1) >> \o Split(SubSeq(s, i + 1, Len(s)), sep)

\* strings.SplitN(s, sep, n) for n >= 1: at most n parts, the last one unsplit
RECURSIVE SplitN(_, _, _)
SplitN(s, sep, n) ==
    LET i == Index(s, sep) IN
    IF n <= 1 \/ i = 0 THEN << s >>
    ELSE << SubSeq(s, 1, i - 1) >> \o SplitN(SubSeq(s, i + 1, Len(s)), sep, n - 1)

\* strings.ToLower on the letters the model uses
LowerChar(c) ==
    CASE c = "B" -> "b"
      [] c = "E" -> "e"
      [] c = "A" -> "a"
      [] c = "R" -> "r"
      [] OTHER -> c

ToLower(s) == [i \in 1..Len(s) |-> LowerChar(s[i])]

\* --------------------------------------------------------------- errors

\* An error value. type: "nil", "sentinel" (errors.New at package level),
\* "AuthError", "TokenValidationError", "wrapError" (fmt.Errorf with %w).
\* inner names the sentinel held in the err field (or wrapped by %w), "" when
\* the held error was made by errors.New(msg) on the spot.
MkErr(type, code, msg, inner) ==
    [type |-> type, code |-> code, msg |-> msg, inner |-> inner]

NoErr == MkErr("nil", 0, "", "")

Sentinel(name, msg) == MkErr("sentinel", 0, msg, name)

ErrMiddlewareRemote == Sentinel("ErrMiddlewareRemote", "middleware setup")
ErrAuthentication == Sentinel("ErrAuthentication", "authentication error")
ErrInvalidSigningKey == Sentinel("ErrInvalidSigningKey", "invalid token signing key")
ErrInvalidAuthConfig == Sentinel("ErrInvalidAuthConfig", "invalid oidc config provided")
ErrRegistryUninitialized ==
    Sentinel("ErrRegistryUninitialized", "controller registry uninitialized")
ErrRegistryPreviouslyInitialized ==
    Sentinel("ErrRegistryPreviouslyInitialized", "controller registry previously initialized")
ErrBadRegistryData == Sentinel("ErrBadRegistryData", "bad registry data")
ErrBadFormat == Sentinel("ErrBadFormat", "bad worker id format")
ErrNatsConfig == Sentinel("ErrNatsConfig", "error in NATs Jetstream configuration")
ErrNatsConn == Sentinel("ErrNatsConn", "error opening nats connection")

SentinelByName(name) ==
    CASE name = "ErrMiddlewareRemote" -> ErrMiddlewareRemote
      [] name = "ErrAuthentication" -> ErrAuthentication
      [] name = "ErrInvalidSigningKey" -> ErrInvalidSigningKey
      [] name = "ErrInvalidAuthConfig" -> ErrInvalidAuthConfig
      [] name = "ErrBadFormat" -> ErrBadFormat
      [] name = "ErrNatsConfig" -> ErrNatsConfig
      [] name = "ErrNatsConn" -> ErrNatsConn
      [] OTHER -> Sentinel(name, name)

NewAuthenticationError(msg) == MkErr("AuthError", StatusUnauthorized, msg, "")

NewAuthenticationErrorFrom(err) ==
    MkErr("AuthError", StatusUnauthorized, err.msg, err.inner)

NewAuthorizationError(msg) == MkErr("AuthError", StatusForbidden, msg, "")

\* wraps a claims-validation error of the JWT library, named by its reason
NewTokenValidationError(reason) ==
    MkErr("TokenValidationError", StatusUnauthorized, reason, reason)

NewInvalidSigningKeyError == NewAuthenticationErrorFrom(ErrInvalidSigningKey)

\* fmt.Errorf("%w: %s", ErrMiddlewareRemote, detail)
WrapRemote(detail) == MkErr("wrapError", 0, detail, "ErrMiddlewareRemote")

\* the Unwrap method of each error type; NoErr when there is none
Unwrap(e) ==
    CASE e.type = "AuthError" -> ErrAuthentication
      [] e.type = "TokenValidationError" -> [e EXCEPT !.type = "AuthError"]
      [] e.type = "wrapError" -> SentinelByName(e.inner)
      [] OTHER -> NoErr

\* errors.Is: err or an error of its Unwrap chain is the target
RECURSIVE ErrorsIs(_, _)
ErrorsIs(e, target) ==
    IF e = NoErr THEN FALSE
    ELSE IF e = target THEN TRUE
    ELSE ErrorsIs(Unwrap(e), target)

\* errors.As into the named type
RECURSIVE ErrorsAs(_, _)
ErrorsAs(e, type) ==
    IF e = NoErr THEN FALSE
    ELSE IF e.type = type THEN TRUE
    ELSE ErrorsAs(Unwrap(e), type)

\* --------------------------------------------------------- keys and tokens

\* A JSON Web Key: key id and key material; the zero JSONWebKey is ZeroKey.
MkKey(kid, mat) == [kid |-> kid, mat |-> mat]

ZeroKey == MkKey(0, 0)

\* JSONWebKeySet.Key(kid): the keys of the set with that key id, in order
Key(jwks, kid) == SelectSeq(jwks, LAMBDA k : k.kid = kid)

\* A time claim (*NumericDate): unset (nil) or an offset from time.Now()
NoTime == [set |-> FALSE, t |-> 0]
At(t) == [set |-> TRUE, t |-> t]

\* A claim value of the decoded claim map (interface{}): absent, a string, a
\* list ([]interface{}) of elements that are strings or not, or another type.
Absent == [t |-> "absent", s |-> EmptyString, l |-> << >>]
StringValue(s) == [t |-> "string", s |-> s, l |-> << >>]
ListValue(l) == [t |-> "list", s |-> EmptyString, l |-> l]
OtherValue == [t |-> "other", s |-> EmptyString, l |-> << >>]
StrElem(s) == [isStr |-> TRUE, s |-> s]
NumElem == [isStr |-> FALSE, s |-> EmptyString]

\* the names of the private claims a token of the model can carry
ClaimNames == {"scope", "roles", "name"}

\* sc[name] of VerifyToken: the claim map holds the registered claims too
ClaimValue(tok, name) ==
    IF name = "sub"
    THEN (IF tok.sub = EmptyString THEN Absent ELSE StringValue(tok.sub))
    ELSE IF name \in ClaimNames THEN tok.claims[name]
    ELSE Absent

ClaimMetadata(subject, user, roles) ==
    [Subject |-> subject, User |-> user, Roles |-> roles]

EmptyClaimMetadata == ClaimMetadata(EmptyString, EmptyString, << >>)

\* ------------------------------------------------------------- JWKS cache

\* Decoding a key document whose element Len(doc) + 1 cannot be decoded into
\* the cached slice: the elements before it are already stored in place, the
\* slice has been extended for the failing element, the rest is left alone.
PartialDecode(cache, doc) ==
    [i \in 1..Max(Len(cache), Len(doc) + 1) |->
        IF i <= Len(doc) THEN doc[i]
        ELSE IF i <= Len(cache) THEN cache[i]
        ELSE ZeroKey]

\* Middleware.refreshJWKS: a no-op on an inline key set; otherwise one GET of
\* the JWKS URI, decoded into the cache. Gives the error, the cache afterwards
\* and the number of requests made.
refreshJWKS(m) ==
    IF Len(m.cfg.JWKS) > 0
    THEN [err |-> NoErr, cache |-> m.cachedJWKS, fetches |-> 0]
    ELSE CASE m.endpoint.status = "neterr" ->
                [err |-> MkErr("other", 0, "request failed", ""),
                 cache |-> m.cachedJWKS, fetches |-> 1]
           [] m.endpoint.status = "non200" ->
                [err |-> WrapRemote("response body"),
                 cache |-> m.cachedJWKS, fetches |-> 1]
           [] m.endpoint.status = "badjson" ->
                [err |-> MkErr("other", 0, "invalid character", ""),
                 cache |-> m.cachedJWKS, fetches |-> 1]
           [] m.endpoint.status = "badkey" ->
                [err |-> MkErr("other", 0, "unknown json web key type", ""),
                 cache |-> PartialDecode(m.cachedJWKS, m.endpoint.doc),
                 fetches |-> 1]
           [] OTHER ->
                [err |-> NoErr, cache |-> m.endpoint.doc, fetches |-> 1]

\* mutant: after the refresh the first key of the set is taken, whatever its id
getJWKSAnyKeyAfterRefresh(m, kid) ==
    LET keys == Key(m.cachedJWKS, kid) IN
    IF Len(keys) = 0
    THEN LET r == refreshJWKS(m)
         IN  IF r.err # NoErr \/ Len(r.cache) = 0
             THEN [found |-> FALSE, key |-> ZeroKey, cache |-> r.cache,
                   fetches |-> r.fetches]
             ELSE [found |-> TRUE, key |-> r.cache[1], cache |-> r.cache,
                   fetches |-> r.fetches]
    ELSE [found |-> TRUE, key |-> keys[1], cache |-> m.cachedJWKS, fetches |-> 0]

\* mutant: the key set is fetched before the cache is looked at
getJWKSRefreshFirst(m, kid) ==
    LET r == refreshJWKS(m)
        keys == Key(IF r.err = NoErr THEN r.cache ELSE m.cachedJWKS, kid)
    IN  IF Len(keys) = 0
        THEN [found |-> FALSE, key |-> ZeroKey, cache |-> r.cache, fetches |-> r.fetches]
        ELSE [found |-> TRUE, key |-> keys[1], cache |-> r.cache, fetches |-> r.fetches]

\* Middleware.getJWKS: the first cached key with the key id; on a miss one
\* refresh and one more lookup. found = FALSE is the nil result.
getJWKS(m, kid) ==
    LET keys == Key(m.cachedJWKS, kid) IN
    IF Len(keys) = 0
    THEN LET r == refreshJWKS(m)
             again == Key(r.cache, kid)
         IN  IF r.err # NoErr
             THEN [found |-> FALSE, key |-> ZeroKey, cache |-> r.cache,
                   fetches |-> r.fetches]
             ELSE IF Len(again) = 0
             THEN [found |-> FALSE, key |-> ZeroKey, cache |-> r.cache,
                   fetches |-> r.fetches]
             ELSE [found |-> TRUE, key |-> again[1], cache |-> r.cache,
                   fetches |-> r.fetches]
    ELSE [found |-> TRUE, key |-> keys[1], cache |-> m.cachedJWKS, fetches |-> 0]

\* ------------------------------------------------------ token verification

\* mutant: the expiry time is not looked at
ValidateClaimsWithoutExpiry(tok, cfg) ==
    IF cfg.Issuer # EmptyString /\ cfg.Issuer # tok.iss
    THEN "invalid issuer claim (iss)"
    ELSE IF cfg.Audience \notin tok.aud
    THEN "invalid audience claim (aud)"
    ELSE IF tok.nbf.set /\ 0 + DefaultLeeway < tok.nbf.t
    THEN "token not valid yet (nbf)"
    ELSE ""

\* jwt.Claims.Validate(Expected{Issuer, Audience{aud}, Time: now}) of go-jose
\* with its default leeway: "" when the claims are valid, else the reason
ValidateClaims(tok, cfg) ==
    IF cfg.Issuer # EmptyString /\ cfg.Issuer # tok.iss
    THEN "invalid issuer claim (iss)"
    ELSE IF cfg.Audience \notin tok.aud
    THEN "invalid audience claim (aud)"
    ELSE IF tok.nbf.set /\ 0 + DefaultLeeway < tok.nbf.t
    THEN "token not valid yet (nbf)"
    ELSE IF tok.exp.set /\ 0 - DefaultLeeway > tok.exp.t
    THEN "token is expired (exp)"
    ELSE ""

\* the type switch on sc[RolesClaim]; panic is the failed assertion i.(string)
ExtractRoles(v) ==
    CASE v.t = "string" -> [panic |-> FALSE, roles |-> Split(v.s, " ")]
      [] v.t = "list" ->
            IF \E i \in 1..Len(v.l) : ~v.l[i].isStr
            THEN [panic |-> TRUE, roles |-> << >>]
            ELSE [panic |-> FALSE, roles |-> [i \in 1..Len(v.l) |-> v.l[i].s]]
      [] OTHER -> [panic |-> FALSE, roles |-> << >>]

\* the type switch on sc[UsernameClaim]
ExtractUser(v, subject) == IF v.t = "string" THEN v.s ELSE subject

\* jwt.ParseSigned(rawToken): the compact serialization of the request's token
\* is the one character "T"
ParseSigned(rawToken, tok) == rawToken = << "T" >> /\ tok.wellformed

\* tok.Claims(key, ...): the signature verifies under the key's material
VerifySignature(tok, key) == key.mat = tok.mat

VTResult(cm, err, steps, cache, fetches, panic) ==
    [cm |-> cm, err |-> err, steps |-> steps, cache |-> cache,
     fetches |-> fetches, panic |-> panic]

\* mutant: the key is looked up before the key id is checked for ""
VerifyTokenLookupBeforeKid(m, r) ==
    LET authHeaderParts == SplitN(r.hdr, " ", expectedAuthHeaderParts)
        tok == r.tok
        jwk == getJWKS(m, tok.kid)
        reason == ValidateClaims(tok, m.cfg)
        rolesx == ExtractRoles(ClaimValue(tok, m.cfg.RolesClaim))
        user == ExtractUser(ClaimValue(tok, m.cfg.UsernameClaim), tok.sub)
        fail(err, steps, cache, fetches) ==
            VTResult(EmptyClaimMetadata, err, steps, cache, fetches, FALSE)
    IN
    IF r.hdr = EmptyString
    THEN fail(NewAuthenticationError("missing authorization header, expected format: \"Bearer token\""),
              << "header" >>, m.cachedJWKS, 0)
    ELSE IF ~(Len(authHeaderParts) = expectedAuthHeaderParts
              /\ ToLower(authHeaderParts[1]) = << "b", "e", "a", "r", "e", "r" >>)
    THEN fail(NewAuthenticationError("invalid authorization header, expected format: \"Bearer token\""),
              << "header", "format" >>, m.cachedJWKS, 0)
    ELSE IF ~ParseSigned(authHeaderParts[2], tok)
    THEN fail(NewAuthenticationError("unable to parse auth token"),
              << "header", "format", "parse" >>, m.cachedJWKS, 0)
    ELSE IF ~jwk.found
    THEN fail(NewInvalidSigningKeyError,
              << "header", "format", "parse", "key" >>, jwk.cache, jwk.fetches)
    ELSE IF tok.kid = 0
    THEN fail(NewAuthenticationError("unable to parse auth token header"),
              << "header", "format", "parse", "key", "kid" >>, jwk.cache, jwk.fetches)
    ELSE IF ~VerifySignature(tok, jwk.key)
    THEN fail(NewAuthenticationError("unable to validate auth token"),
              << "header", "format", "parse", "key", "kid", "signature" >>,
              jwk.cache, jwk.fetches)
    ELSE IF reason # ""
    THEN fail(NewTokenValidationError(reason),
              << "header", "format", "parse", "key", "kid", "signature", "claims" >>,
              jwk.cache, jwk.fetches)
    ELSE VTResult(
            IF rolesx.panic THEN EmptyClaimMetadata
            ELSE ClaimMetadata(tok.sub, user, rolesx.roles),
            NoErr,
            << "header", "format", "parse", "key", "kid", "signature", "claims", "roles" >>,
            jwk.cache, jwk.fetches, rolesx.panic)

\* Middleware.VerifyToken. steps lists the checks performed, in order; cache
\* is m.cachedJWKS afterwards; panic tells that the call panicked.
VerifyToken(m, r) ==
    LET authHeader == r.hdr
        authHeaderParts == SplitN(authHeader, " ", expectedAuthHeaderParts)
        rawToken == authHeaderParts[2]
        tok == r.tok
        jwk == getJWKS(m, tok.kid)
        reason == ValidateClaims(tok, m.cfg)
        rolesx == ExtractRoles(ClaimValue(tok, m.cfg.RolesClaim))
        user == ExtractUser(ClaimValue(tok, m.cfg.UsernameClaim), tok.sub)
        fail(err, steps, cache, fetches) ==
            VTResult(EmptyClaimMetadata, err, steps, cache, fetches, FALSE)
    IN
    IF authHeader = EmptyString
    THEN fail(NewAuthenticationError("missing authorization header, expected format: \"Bearer token\""),
              << "header" >>, m.cachedJWKS, 0)
    ELSE IF ~(Len(authHeaderParts) = expectedAuthHeaderParts
              /\ ToLower(authHeaderParts[1]) = << "b", "e", "a", "r", "e", "r" >>)
    THEN fail(NewAuthenticationError("invalid authorization header, expected format: \"Bearer token\""),
              << "header", "format" >>, m.cachedJWKS, 0)
    ELSE IF ~ParseSigned(rawToken, tok)
    THEN fail(NewAuthenticationError("unable to parse auth token"),
              << "header", "format", "parse" >>, m.cachedJWKS, 0)
    ELSE IF tok.kid = 0
    THEN fail(NewAuthenticationError("unable to parse auth token header"),
              << "header", "format", "parse", "kid" >>, m.cachedJWKS, 0)
    ELSE IF ~jwk.found
    THEN fail(NewInvalidSigningKeyError,
              << "header", "format", "parse", "kid", "key" >>,
              jwk.cache, jwk.fetches)
    ELSE IF ~VerifySignature(tok, jwk.key)
    THEN fail(NewAuthenticationError("unable to validate auth token"),
              << "header", "format", "parse", "kid", "key", "signature" >>,
              jwk.cache, jwk.fetches)
    ELSE IF reason # ""
    THEN fail(NewTokenValidationError(reason),
              << "header", "format", "parse", "kid", "key", "signature", "claims" >>,
              jwk.cache, jwk.fetches)
    ELSE VTResult(
            IF rolesx.panic THEN EmptyClaimMetadata
            ELSE ClaimMetadata(tok.sub, user, rolesx.roles),
            NoErr,
            << "header", "format", "parse", "kid", "key", "signature", "claims", "roles" >>,
            jwk.cache, jwk.fetches, rolesx.panic)

\* ------------------------------------------------------------ scope check

\* the set of the elements of a list (the map[string]struct{} of the code)
Elems(l) == {l[i] : i \in 1..Len(l)}

\* mutant: one needed scope among the roles is enough
hasAllScopesFirstFound(have, needed) ==
    IF Len(needed) = 0 THEN TRUE
    ELSE \E i \in 1..Len(needed) : needed[i] \in Elems(have)

hasAllScopes(have, needed) ==
    IF Len(needed) = 0 THEN TRUE
    ELSE \A i \in 1..Len(needed) : needed[i] \in Elems(have)

\* mutant: no short circuit on an empty list of needed scopes
hasScope(have, needed) == \E i \in 1..Len(have) : have[i] \in Elems(needed)

hasAnyScope(have, needed) ==
    IF Len(needed) = 0 THEN TRUE
    ELSE \E i \in 1..Len(have) : have[i] \in Elems(needed)

\* mutant: an unknown strategy is taken as any
VerifyScopesDefaultAny(m, roles, scopes) ==
    CASE m.cfg.RoleValidationStrategy = "all" ->
            IF hasAllScopes(roles, scopes) THEN NoErr
            ELSE NewAuthorizationError("not authorized, missing required scope")
      [] OTHER ->
            IF hasAnyScope(roles, scopes) THEN NoErr
            ELSE NewAuthorizationError("not authorized, missing required scope")

\* Middleware.VerifyScopes on the roles read from the context
VerifyScopes(m, roles, scopes) ==
    CASE m.cfg.RoleValidationStrategy \in {"", "any"} ->
            IF hasAnyScope(roles, scopes) THEN NoErr
            ELSE NewAuthorizationError("not authorized, missing required scope")
      [] m.cfg.RoleValidationStrategy = "all" ->
            IF hasAllScopes(roles, scopes) THEN NoErr
            ELSE NewAuthorizationError("not authorized, missing required scope")
      [] OTHER -> ErrInvalidAuthConfig

\* -------------------------------------------------------- remote verifier

\* mutant: the body is decoded whatever the status of the answer is
RemoteVerifyAnyStatus(a) ==
    IF a.neterr
    THEN [cm |-> EmptyClaimMetadata, err |-> WrapRemote("request failed")]
    ELSE IF ~a.json
    THEN [cm |-> EmptyClaimMetadata, err |-> NewAuthenticationError("invalid character")]
    ELSE IF ~a.authed
    THEN [cm |-> EmptyClaimMetadata, err |-> NewAuthenticationError("remote message")]
    ELSE IF ~a.details
    THEN [cm |-> EmptyClaimMetadata, err |-> NoErr]
    ELSE [cm |-> ClaimMetadata(a.subject,
                               IF a.user = EmptyString THEN a.subject ELSE a.user,
                               << >>),
          err |-> NoErr]

\* RemoteMiddleware.VerifyTokenWithScopes on the answer of the remote
\* endpoint: [neterr, code, json, authed, details, subject, user]
RemoteVerify(a) ==
    IF a.neterr
    THEN [cm |-> EmptyClaimMetadata, err |-> WrapRemote("request failed")]
    ELSE IF a.code # StatusOK /\ a.code # StatusForbidden /\ a.code # StatusUnauthorized
    THEN [cm |-> EmptyClaimMetadata, err |-> WrapRemote("response body")]
    ELSE IF ~a.json
    THEN [cm |-> EmptyClaimMetadata, err |-> NewAuthenticationError("invalid character")]
    ELSE IF ~a.authed
    THEN [cm |-> EmptyClaimMetadata, err |-> NewAuthenticationError("remote message")]
    ELSE IF ~a.details
    THEN [cm |-> EmptyClaimMetadata, err |-> NoErr]
    ELSE [cm |-> ClaimMetadata(a.subject,
                               IF a.user = EmptyString THEN a.subject ELSE a.user,
                               << >>),
          err |-> NoErr]

\* ------------------------------------------------------------ gin context

\* a key of gin.Context.Keys: unset, or set to a value
Unset == [set |-> FALSE, v |-> << >>]
SetTo(v) == [set |-> TRUE, v |-> v]

NewContext ==
    [subject |-> Unset, user |-> Unset, roles |-> Unset,
     aborted |-> FALSE, status |-> 0, body |-> << >>]

\* c.GetStringSlice("jwt.roles"): nil when the key is unset
GetStringSlice(c) == IF c.roles.set THEN c.roles.v ELSE << >>

\* c.GetString(key): "" when the key is unset
GetString(k) == IF k.set THEN k.v ELSE EmptyString

\* err.Error(), as the list of its parts
ErrorText(e) ==
    CASE e.type = "TokenValidationError" -> << "invalid auth token", e.msg >>
      [] e.type = "wrapError" -> << SentinelByName(e.inner).msg, e.msg >>
      [] OTHER -> << e.msg >>

\* the first error of the Unwrap chain of the named type (errors.As target)
RECURSIVE AsTarget(_, _)
AsTarget(e, type) ==
    IF e.type = type THEN e ELSE AsTarget(Unwrap(e), type)

\* mutant: the response is written with c.JSON, which does not abort
StatusJSONWithoutAbort(c, code, body) == [c EXCEPT !.status = code, !.body = body]

\* c.AbortWithStatusJSON(code, body)
AbortWithStatusJSON(c, code, body) ==
    [c EXCEPT !.aborted = TRUE, !.status = code, !.body = body]

\* mutant: an error that is no AuthError is answered with forbidden
AbortBecauseOfErrorDefaultForbidden(c, err) ==
    IF ErrorsAs(err, "TokenValidationError")
    THEN AbortWithStatusJSON(c, AsTarget(err, "TokenValidationError").code,
                             << "invalid auth token" >> \o ErrorText(err))
    ELSE IF ErrorsAs(err, "AuthError")
    THEN AbortWithStatusJSON(c, AsTarget(err, "AuthError").code,
                             ErrorText(AsTarget(err, "AuthError")))
    ELSE AbortWithStatusJSON(c, StatusForbidden, ErrorText(err))

\* ginauth.AbortBecauseOfError
AbortBecauseOfError(c, err) ==
    IF ErrorsAs(err, "TokenValidationError")
    THEN AbortWithStatusJSON(c, AsTarget(err, "TokenValidationError").code,
                             << "invalid auth token" >> \o ErrorText(err))
    ELSE IF ErrorsAs(err, "AuthError")
    THEN AbortWithStatusJSON(c, AsTarget(err, "AuthError").code,
                             ErrorText(AsTarget(err, "AuthError")))
    ELSE AbortWithStatusJSON(c, StatusUnauthorized, ErrorText(err))

\* SetMetadata of Middleware and of RemoteMiddleware: only non-empty fields
SetMetadata(c, cm) ==
    [c EXCEPT !.subject = IF cm.Subject # EmptyString THEN SetTo(cm.Subject) ELSE @,
              !.user = IF cm.User # EmptyString THEN SetTo(cm.User) ELSE @]

\* ------------------------------------------------------------------ inputs

Issuer1 == << "i" >>
Issuer2 == << "j" >>
Audience1 == << "x" >>
Audience2 == << "y" >>
Subject1 == << "s" >>
JWKSURI1 == << "u" >>
ScopeA == << "a" >>
ScopeB == << "b" >>

HeaderBearer == << "b", "e", "a", "r", "e", "r", " ", "T" >>
HeaderUpper == << "B", "e", "A", "R", "e", "r", " ", "T" >>
\* missing, one part, another scheme, three parts, two separators, leading separator
OtherHeaders ==
    { EmptyString,
      << "b", "e", "a", "r", "e", "r" >>,
      << "b", "a", "s", "i", "c", " ", "T" >>,
      << "b", "e", "a", "r", "e", "r", " ", "T", " ", "x" >>,
      << "b", "e", "a", "r", "e", "r", " ", " ", "T" >>,
      << " ", "b", "e", "a", "r", "e", "r", " ", "T" >> }

Keys == {MkKey(k, m) : k \in 1..MaxKid, m \in 1..MaxMat}

\* key sets: empty, one key, two keys, two keys with the same key id
KeySets ==
    { << >> } \cup { << k >> : k \in Keys }
    \cup { << MkKey(1, 1), MkKey(MaxKid, MaxMat) >>, << MkKey(1, MaxMat), MkKey(1, 1) >> }

Claims(scope, roles, name) ==
    [c \in ClaimNames |->
        CASE c = "scope" -> scope [] c = "roles" -> roles [] OTHER -> name]

DefaultClaims == Claims(StringValue(<< "a", " ", "b" >>), Absent, Absent)

MkToken(wellformed, kid, mat, iss, aud, nbf, exp, sub, claims) ==
    [wellformed |-> wellformed, kid |-> kid, mat |-> mat, iss |-> iss,
     aud |-> aud, nbf |-> nbf, exp |-> exp, sub |-> sub, claims |-> claims]

\* a token every check of a verifier with key (1, 1) accepts
BaseToken ==
    MkToken(TRUE, 1, 1, Issuer1, {Audience1}, NoTime, NoTime, Subject1, DefaultClaims)

\* a string that is no compact serialization
GarbageToken == [BaseToken EXCEPT !.wellformed = FALSE]

TimeClaims == { NoTime } \cup { At(t) : t \in -MaxSkew..MaxSkew }

\* none, valid, expired, not yet valid
CoarseWindows ==
    { << NoTime, NoTime >>, << At(-MaxSkew), At(MaxSkew) >>,
      << At(-MaxSkew), At(-MaxSkew) >>, << At(MaxSkew), NoTime >> }

\* every combination of passing and failing key id, key, issuer, audience and window
CoreTokens ==
    { MkToken(TRUE, kid, mat, iss, aud, w[1], w[2], Subject1, DefaultClaims) :
        kid \in 0..MaxKid, mat \in 1..MaxMat, iss \in {Issuer1, Issuer2},
        aud \in SUBSET {Audience1, Audience2}, w \in CoarseWindows }

\* every validity window on an otherwise valid token
WindowTokens ==
    { [BaseToken EXCEPT !.nbf = n, !.exp = e] : n \in TimeClaims, e \in TimeClaims }

RoleClaimValues ==
    { Absent, OtherValue,
      StringValue(EmptyString), StringValue(<< "a" >>), StringValue(<< "a", " ", "b" >>),
      StringValue(<< "a", " ", " ", "b" >>), StringValue(<< "b", " " >>),
      ListValue(<< >>), ListValue(<< StrElem(ScopeA) >>),
      ListValue(<< StrElem(ScopeB), StrElem(ScopeA) >>),
      ListValue(<< StrElem(ScopeA), NumElem >>), ListValue(<< NumElem >>) }

\* every shape of the role claims on an otherwise valid token
RoleTokens ==
    { [BaseToken EXCEPT !.claims = Claims(scope, roles, Absent)] :
        scope \in RoleClaimValues, roles \in {Absent, ListValue(<< StrElem(ScopeB) >>)} }

\* every shape of the subject and the user claim on an otherwise valid token
UserTokens ==
    { [BaseToken EXCEPT !.sub = sub, !.claims = Claims(DefaultClaims["scope"], Absent, name)] :
        sub \in {Subject1, EmptyString},
        name \in {Absent, StringValue(<< "n" >>), OtherValue} }

\* every key id and key material on an otherwise valid token
KeyTokens ==
    { [BaseToken EXCEPT !.kid = kid, !.mat = mat] : kid \in 0..MaxKid, mat \in 1..MaxMat }

MkRequest(hdr, tok) == [hdr |-> hdr, tok |-> tok]

Cfg(enabled, aud, iss, uri, jwks, rolesClaim, usernameClaim, strategy) ==
    [Enabled |-> enabled, Audience |-> aud, Issuer |-> iss, JWKSURI |-> uri,
     JWKS |-> jwks, RolesClaim |-> rolesClaim, UsernameClaim |-> usernameClaim,
     RoleValidationStrategy |-> strategy]

\* the JWKS endpoint: how a GET of the JWKS URI ends, and the key document
Endpoint(status, doc) == [status |-> status, doc |-> doc]
NoEndpoint == Endpoint("neterr", << >>)

\* the remote authorization endpoint's answer
Answer(neterr, code, json, authed, details, subject, user) ==
    [neterr |-> neterr, code |-> code, json |-> json, authed |-> authed,
     details |-> details, subject |-> subject, user |-> user]
NoAnswer == Answer(TRUE, 0, FALSE, FALSE, FALSE, EmptyString, EmptyString)

\* a ginjwt.Middleware as NewAuthMiddleware leaves it: the claim names
\* defaulted, the cache holding the inline key set or the fetched document
JwtVerifier(cfg, cache, endpoint) ==
    [kind |-> "jwt", cfg |-> cfg, cachedJWKS |-> cache, endpoint |-> endpoint,
     auth |-> NoAnswer]

DefaultCfg == Cfg(TRUE, Audience1, Issuer1, EmptyString, << >>, "scope", "sub", "")

RemoteVerifier(answer) ==
    [kind |-> "remote", cfg |-> DefaultCfg, cachedJWKS |-> << >>,
     endpoint |-> NoEndpoint, auth |-> answer]

\* inline key set: no URI, the cache is the configured set
InlineSetups ==
    { [JWKS |-> ks, JWKSURI |-> EmptyString, cache |-> ks, endpoint |-> NoEndpoint] :
        ks \in KeySets \ { << >> } }

Endpoints ==
    { Endpoint("ok", doc) : doc \in KeySets }
    \cup { Endpoint("badkey", doc) : doc \in { << >>, << MkKey(MaxKid, MaxMat) >> } }
    \cup { Endpoint(st, << >>) : st \in {"neterr", "non200", "badjson"} }

\* key set behind a URI: the cache holds the document fetched at construction
UriSetups ==
    { [JWKS |-> << >>, JWKSURI |-> JWKSURI1, cache |-> c, endpoint |-> e] :
        c \in { << >>, << MkKey(1, 1) >> }, e \in Endpoints }

SetupVerifier(cfg, st) ==
    JwtVerifier([cfg EXCEPT !.JWKS = st.JWKS, !.JWKSURI = st.JWKSURI], st.cache, st.endpoint)

BaseSetup ==
    [JWKS |-> << >>, JWKSURI |-> JWKSURI1, cache |-> << MkKey(1, 1) >>,
     endpoint |-> Endpoint("ok", << MkKey(1, 1) >>)]

ScopeLists == { << >>, << ScopeA >>, << ScopeA, ScopeB >> }

RotatedSetup ==
    [JWKS |-> << >>, JWKSURI |-> JWKSURI1, cache |-> << MkKey(1, 1) >>,
     endpoint |-> Endpoint("ok", << MkKey(MaxKid, MaxMat) >>)]

InlineSetup ==
    [JWKS |-> << MkKey(1, 1) >>, JWKSURI |-> EmptyString, cache |-> << MkKey(1, 1) >>,
     endpoint |-> NoEndpoint]

\* the inputs of the single-provider pipeline: [verifier, request, scopes]
PipelineCase(v, r, sc) == [verifier |-> v, request |-> r, scopes |-> sc]

PipelineCases ==
    \* every combination of failing checks
    { PipelineCase(SetupVerifier(DefaultCfg, st), MkRequest(HeaderBearer, t), << ScopeA >>) :
        st \in { BaseSetup, RotatedSetup, InlineSetup },
        t \in { GarbageToken } \cup CoreTokens \cup WindowTokens }
    \cup
    \* every key against every key setup
    { PipelineCase(SetupVerifier(DefaultCfg, st), MkRequest(HeaderBearer, t), << ScopeA >>) :
        st \in InlineSetups \cup UriSetups, t \in KeyTokens }
    \cup
    \* every header
    { PipelineCase(SetupVerifier(DefaultCfg, BaseSetup), MkRequest(h, t), << ScopeA >>) :
        h \in { HeaderUpper } \cup OtherHeaders,
        t \in { BaseToken, GarbageToken, [BaseToken EXCEPT !.kid = MaxKid] } }
    \cup
    \* every role claim against every role configuration and scope list
    { PipelineCase(
        SetupVerifier([DefaultCfg EXCEPT !.RolesClaim = rc, !.RoleValidationStrategy = strat],
                      BaseSetup),
        MkRequest(HeaderBearer, t), sc) :
        rc \in {"scope", "roles"}, strat \in {"", "any", "all", "none"},
        t \in RoleTokens, sc \in ScopeLists }
    \cup
    \* every user claim against every user claim configuration
    { PipelineCase(
        SetupVerifier([DefaultCfg EXCEPT !.UsernameClaim = uc], BaseSetup),
        MkRequest(HeaderBearer, t), << ScopeA >>) :
        uc \in {"sub", "name"}, t \in UserTokens }
    \cup
    \* authentication switched off
    { PipelineCase(
        JwtVerifier([DefaultCfg EXCEPT !.Enabled = FALSE], << >>, NoEndpoint),
        MkRequest(h, BaseToken), << ScopeA >>) :
        h \in { HeaderBearer, EmptyString } }
    \cup
    \* role and scope lists with repeated entries
    { PipelineCase(
        SetupVerifier([DefaultCfg EXCEPT !.RoleValidationStrategy = strat], BaseSetup),
        MkRequest(HeaderBearer, [BaseToken EXCEPT !.claims = Claims(StringValue(r), Absent, Absent)]),
        sc) :
        strat \in {"", "any", "all"},
        r \in { << "a", " ", "a" >>, << "b", " ", "a", " ", "b" >>, << "b" >> },
        sc \in { << ScopeA, ScopeA >>, << ScopeB, ScopeA, ScopeB >> } }

\* ------------------------------------------------------------ construction

ErrJWKSConfigConflict ==
    Sentinel("ErrJWKSConfigConflict", "JWKS and JWKSURI can't both be set at the same time")

\* mutant: the key set is configured before Enabled is looked at
NewAuthMiddlewareKeysFirst(cfg, endpoint) ==
    LET c == [cfg EXCEPT
                !.RolesClaim = IF @ = "" THEN "scope" ELSE @,
                !.UsernameClaim = IF @ = "" THEN "sub" ELSE @]
        mw == JwtVerifier(c, << >>,
                          IF c.JWKSURI = EmptyString THEN NoEndpoint ELSE endpoint)
        r == refreshJWKS(mw)
    IN  IF c.JWKSURI # EmptyString /\ Len(c.JWKS) > 0
        THEN [err |-> ErrJWKSConfigConflict, mw |-> mw, fetches |-> 0]
        ELSE IF Len(c.JWKS) > 0
        THEN [err |-> NoErr, mw |-> [mw EXCEPT !.cachedJWKS = c.JWKS], fetches |-> 0]
        ELSE IF r.err # NoErr
        THEN [err |-> r.err, mw |-> mw, fetches |-> r.fetches]
        ELSE [err |-> NoErr, mw |-> [mw EXCEPT !.cachedJWKS = r.cache],
              fetches |-> r.fetches]

\* NewAuthMiddleware(cfg), with the JWKS endpoint behind cfg.JWKSURI (no
\* endpoint answers the empty URI): the error, the middleware (when the error
\* is nil) and the number of requests made
NewAuthMiddleware(cfg, endpoint) ==
    LET c == [cfg EXCEPT
                !.RolesClaim = IF @ = "" THEN "scope" ELSE @,
                !.UsernameClaim = IF @ = "" THEN "sub" ELSE @]
        mw == JwtVerifier(c, << >>,
                          IF c.JWKSURI = EmptyString THEN NoEndpoint ELSE endpoint)
        r == refreshJWKS(mw)
    IN  IF ~c.Enabled
        THEN [err |-> NoErr, mw |-> mw, fetches |-> 0]
        ELSE IF c.JWKSURI # EmptyString /\ Len(c.JWKS) > 0
        THEN [err |-> ErrJWKSConfigConflict, mw |-> mw, fetches |-> 0]
        ELSE IF Len(c.JWKS) > 0
        THEN [err |-> NoErr, mw |-> [mw EXCEPT !.cachedJWKS = c.JWKS], fetches |-> 0]
        ELSE IF r.err # NoErr
        THEN [err |-> r.err, mw |-> mw, fetches |-> r.fetches]
        ELSE [err |-> NoErr, mw |-> [mw EXCEPT !.cachedJWKS = r.cache],
              fetches |-> r.fetches]

\* the AuthConfigs passed to NewAuthMiddleware
Configs ==
    { Cfg(enabled, Audience1, Issuer1, uri, jwks, rolesClaim, usernameClaim, strategy) :
        enabled \in BOOLEAN, uri \in { EmptyString, JWKSURI1 },
        jwks \in { << >>, << MkKey(1, 1) >> },
        rolesClaim \in { "", "roles" }, usernameClaim \in { "", "name" },
        strategy \in { "", "all" } }

\* the requests sent to a newly constructed middleware
ConfigRequests ==
    { MkRequest(h, t) : h \in { HeaderBearer, EmptyString },
                        t \in { BaseToken, GarbageToken, [BaseToken EXCEPT !.kid = MaxKid] } }

\* ------------------------------------------------- events: registry data

\* the hexadecimal digits uuid.UUID.String() writes
Hex == << "0", "1", "2", "3", "4", "5", "6", "7", "8", "9", "a", "b", "c", "d", "e", "f" >>

UUIDs == 0..MaxUUID

\* uuid.UUID.String(), shortened to one digit
UUIDString(u) == << Hex[u + 1] >>

\* uuid.Parse(s): the UUID whose text s is; an error for every other string
UUIDParse(s) ==
    IF \E u \in 0..(Len(Hex) - 1) : UUIDString(u) = s
    THEN [err |-> NoErr, uuid |-> CHOOSE u \in 0..(Len(Hex) - 1) : UUIDString(u) = s]
    ELSE [err |-> MkErr("uuid", 0, "invalid UUID", ""), uuid |-> 0]

workerUUID(appName, uuid, kvVersion) ==
    [appName |-> appName, uuid |-> uuid, kvVersion |-> kvVersion]

\* GetID(app) with the UUID uuid.New() returns
GetID(app, uuid) == workerUUID(app, uuid, 0)

\* workerUUID.String()
String(w) == w.appName \o << "/" >> \o UUIDString(w.uuid)

\* ControllerIDFromString(s): strings.Cut at the first "/", then uuid.Parse
ControllerIDFromString(s) ==
    LET i == Index(s, "/")
        name == SubSeq(s, 1, i - 1)
        uuidStr == SubSeq(s, i + 1, Len(s))
        r == UUIDParse(uuidStr)
    IN  IF i = 0
        THEN [err |-> MkErr("wrapError", 0, "missing delimiter", "ErrBadFormat"),
              id |-> workerUUID(EmptyString, 0, 0)]
        ELSE IF r.err # NoErr
        THEN [err |-> MkErr("wrapError", 0, r.err.msg, "ErrBadFormat"),
              id |-> workerUUID(EmptyString, 0, 0)]
        ELSE [err |-> NoErr, id |-> workerUUID(name, r.uuid, 0)]

\* the application names passed to GetID
AppNames == { << "a" >>, << "a", "b" >>, << "a", "/", "b" >>, EmptyString }

\* the errors of the nats.go key-value client
ErrKeyExists == Sentinel("nats.ErrKeyExists", "nats: key exists")
ErrKeyNotFound == Sentinel("nats.ErrKeyNotFound", "nats: key not found")
ErrWrongLastSequence == Sentinel("nats.APIError", "nats: wrong last sequence")
ErrTimeout == Sentinel("nats.ErrTimeout", "nats: timeout")

\* the registry variable before initialization
NilRegistry == [bound |-> FALSE, bind |-> 0]

\* the nats.KeyValue the n-th CreateOrBindKVBucket call returned
Handle(n) == [bound |-> TRUE, bind |-> n]

\* the bucket's entry of the id's key: rev is the sequence of the last
\* message on the key (0: none), live is false for a delete marker, bad for
\* a value that is no activity record
Entry(rev, live, bad) == [rev |-> rev, live |-> live, bad |-> bad]

NoEntry == Entry(0, FALSE, FALSE)

\* the server: reachable or not, whether the bucket exists and has a TTL,
\* the sequence of the bucket's stream, the entry of the id's key, and the
\* number of handles bound
Server(up, exists, ttl, seq, entry, binds) ==
    [up |-> up, exists |-> exists, ttl |-> ttl, seq |-> seq, entry |-> entry,
     binds |-> binds]

\* a call and its result: the error, whether an operation of the key-value
\* store was performed, the ControllerID or the time returned
Ret(op, err, kvop, val, time) ==
    [op |-> op, err |-> err, kvop |-> kvop, val |-> val, time |-> time]

NoRet == Ret("", NoErr, FALSE, workerUUID(EmptyString, 0, 0), 0)

\* ---------------------------------------------- events: NATS stream data

\* NatsStreamOptions
NatsStreamOptions(name, subjects, acknowledgements, retention) ==
    [Name |-> name, Subjects |-> subjects, Acknowledgements |-> acknowledgements,
     Retention |-> retention]

\* no stream parameters
NoStream == NatsStreamOptions("", << >>, FALSE, "")

\* errors.Wrap(err, msg) of github.com/pkg/errors on a sentinel
Wrap(sentinel, msg) == MkErr("wrapError", 0, msg, sentinel.inner)

\* NatsOptions.validateStreamParameters on o.Stream: the error and the
\* parameters as the call leaves them
validateStreamParameters(o) ==
    LET st == [o EXCEPT !.Retention = IF @ = "" THEN "limits" ELSE @]
    IN  IF st.Retention \notin {"workQueue", "limits", "interest"}
        THEN [err |-> Wrap(ErrNatsConfig, "Stream parameters require a valid Retention"),
              stream |-> st]
        ELSE IF st.Name = ""
        THEN [err |-> Wrap(ErrNatsConfig, "stream parameters require a Name"),
              stream |-> st]
        ELSE IF Len(st.Subjects) = 0
        THEN [err |-> Wrap(ErrNatsConn, "stream parameters require one or more Subjects to associate with the stream"),
              stream |-> st]
        ELSE [err |-> NoErr, stream |-> st]

\* the stream parameters of a configuration
StreamOptions ==
    { NatsStreamOptions(name, subjects, ack, retention) :
        name \in { "", "hollow" },
        subjects \in { << >>, << "foo.bar" >>, << "foo.bar", "foo.baz" >> },
        ack \in BOOLEAN,
        retention \in { "", "workQueue", "limits", "interest", "foobar" } }

\* ------------------------------------------------------------------- state

VARIABLES
    req,          \* the request: Authorization header and the token it carries
    scopes,       \* the scopes the route requires
    mws,          \* the verifiers (for the pipeline: the one Middleware)
    chain,        \* the handlers of the route, in order
    idx,          \* the handler to run next (gin's c.index)
    ctx,          \* the gin.Context: keys, abort flag, response
    handlerRan,   \* the route's own handler has run
    crashed,      \* a panic has ended the request (or the process)
    vt,           \* the result of the VerifyToken call of AuthRequired
    scopeErr,     \* the result of the VerifyScopes call of RequiredScopes
    ran,          \* the handlers that have run, in order
    gor,          \* the composer's goroutines: position, claim metadata, error
    res,          \* the composer's result channel
    wg,           \* the composer's WaitGroup counter
    mpc,          \* the composer handler's position
    surfacingErr, \* the composer's surfacingErr
    cons,         \* the NewAuthMiddleware call: its input and its result
    registry,     \* the registry package's bucket handle (nil until bound)
    kv,           \* the NATS server: reachable or not, the registry bucket
    id,           \* the ControllerID of this process
    ret,          \* the last call into the events packages and its result
    disturbed,    \* the id's key was written by another writer or expired
                  \* since the id's last successful create or update
    stream,       \* the NatsOptions.Stream parameters
    refreshing,   \* a refreshJWKS call in progress: its position in Decode
    observed      \* the key set the last lookup of another request read

vars == << req, scopes, mws, chain, idx, ctx, handlerRan, crashed, vt, scopeErr,
           ran, gor, res, wg, mpc, surfacingErr, cons,
           registry, kv, id, ret, disturbed, stream, refreshing, observed >>

pipelineVars == << vt, scopeErr >>
composerVars == << gor, res, wg, mpc, surfacingErr >>
configVars == << cons >>
eventsVars == << registry, kv, id, ret, disturbed, stream >>
natsVars == << stream >>
jwksVars == << refreshing, observed >>

\* no VerifyToken call yet: no check performed
NoVT == VTResult(EmptyClaimMetadata, NoErr, << >>, << >>, 0, FALSE)

\* no VerifyScopes call yet
NotRun == MkErr("pending", 0, "", "")

Goroutine(pc, cm, err) == [pc |-> pc, cm |-> cm, err |-> err]

\* a NewAuthMiddleware call: the AuthConfig passed, the JWKS endpoint behind
\* its URI, and the result: the error returned and the requests made
Construction(cfg, endpoint, called, err, fetches) ==
    [cfg |-> cfg, endpoint |-> endpoint, called |-> called, err |-> err,
     fetches |-> fetches]

\* the verifiers were constructed beforehand
NoCall == Construction(DefaultCfg, NoEndpoint, FALSE, NoErr, 0)

\* the events packages are not used
EventsIdle ==
    /\ registry = NilRegistry
    /\ kv = Server(TRUE, FALSE, FALSE, 0, NoEntry, 0)
    /\ id = workerUUID(EmptyString, 0, 0)
    /\ ret = NoRet
    /\ disturbed = FALSE
    /\ stream = NoStream

\* a refreshJWKS call at position pc, with i keys of the document decoded
\* into the cache; old is the cached key set before the call
Refreshing(pc, i, old) == [pc |-> pc, i |-> i, old |-> old]

\* no lookup of another request yet
NotObserved == [set |-> FALSE, keys |-> << >>]

InitCommon ==
    /\ refreshing = Refreshing("idle", 0, << >>)
    /\ observed = NotObserved
    /\ idx = 1
    /\ ctx = NewContext
    /\ handlerRan = FALSE
    /\ crashed = FALSE
    /\ vt = NoVT
    /\ scopeErr = NotRun
    /\ ran = << >>
    /\ gor = [i \in 1..Len(mws) |-> Goroutine("idle", EmptyClaimMetadata, NoErr)]
    /\ res = << >>
    /\ wg = 0
    /\ mpc = "idle"
    /\ surfacingErr = NoErr

\* r.Use(authMW.AuthRequired(), authMW.RequiredScopes(scopes)); r.GET("/", handler)
InitPipeline ==
    /\ \E c \in PipelineCases :
        /\ req = c.request
        /\ scopes = c.scopes
        /\ mws = << c.verifier >>
    /\ chain = << "AuthRequired", "RequiredScopes", "handler" >>
    /\ cons = NoCall
    /\ InitCommon
    /\ EventsIdle

\* the handler to run next, "" past the end of the chain or after an abort
Current ==
    IF crashed \/ ctx.aborted \/ idx > Len(chain) THEN "" ELSE chain[idx]

\* ------------------------------------------------- single-provider pipeline

\* Middleware.AuthRequired
AuthRequired ==
    /\ Current = "AuthRequired"
    /\ ran' = Append(ran, "AuthRequired")
    /\ idx' = idx + 1
    /\ LET m == mws[1]
           r == VerifyToken(m, req)
       IN  IF ~m.cfg.Enabled
           THEN UNCHANGED << mws, ctx, crashed, vt >>
           ELSE /\ vt' = r
                /\ mws' = [mws EXCEPT ![1].cachedJWKS = r.cache]
                /\ crashed' = r.panic
                /\ ctx' = IF r.panic THEN ctx
                          ELSE IF r.err # NoErr THEN AbortBecauseOfError(ctx, r.err)
                          ELSE [ctx EXCEPT !.subject = SetTo(r.cm.Subject),
                                           !.user = SetTo(r.cm.User),
                                           !.roles = SetTo(r.cm.Roles)]
    /\ UNCHANGED << req, scopes, chain, handlerRan, scopeErr >>
    /\ UNCHANGED composerVars
    /\ UNCHANGED configVars
    /\ UNCHANGED eventsVars
    /\ UNCHANGED jwksVars

\* Middleware.RequiredScopes(scopes)
RequiredScopes ==
    /\ Current = "RequiredScopes"
    /\ ran' = Append(ran, "RequiredScopes")
    /\ idx' = idx + 1
    /\ LET m == mws[1]
           err == VerifyScopes(m, GetStringSlice(ctx), scopes)
       IN  IF ~m.cfg.Enabled
           THEN UNCHANGED << ctx, scopeErr >>
           ELSE /\ scopeErr' = err
                /\ ctx' = IF err # NoErr THEN AbortBecauseOfError(ctx, err) ELSE ctx
    /\ UNCHANGED << req, scopes, mws, chain, handlerRan, crashed, vt >>
    /\ UNCHANGED composerVars
    /\ UNCHANGED configVars
    /\ UNCHANGED eventsVars
    /\ UNCHANGED jwksVars

\* the route's handler: c.JSON(http.StatusOK, "ok")
Handler ==
    /\ Current = "handler"
    /\ ran' = Append(ran, "handler")
    /\ idx' = idx + 1
    /\ handlerRan' = TRUE
    /\ ctx' = [ctx EXCEPT !.status = StatusOK, !.body = << "ok" >>]
    /\ UNCHANGED << req, scopes, mws, chain, crashed >>
    /\ UNCHANGED pipelineVars
    /\ UNCHANGED composerVars
    /\ UNCHANGED configVars
    /\ UNCHANGED eventsVars
    /\ UNCHANGED jwksVars

NextPipeline == AuthRequired \/ RequiredScopes \/ Handler

SpecPipeline == InitPipeline /\ [][NextPipeline]_vars

\* ------------------------------------------------ claims on the pipeline

\* the error responses AbortBecauseOfError can write
ErrorStatuses == {StatusUnauthorized, StatusForbidden}

\* C1: in an enabled pipeline AuthRequired, RequiredScopes(scopes), handler, the
\* handler runs only after VerifyToken and VerifyScopes both returned no error;
\* when a stage fails the request is aborted with an error response and no
\* later stage and no handler runs.
C1_HandlerOnlyAfterBothStages ==
    mws[1].cfg.Enabled =>
        /\ handlerRan =>
            /\ vt.steps # << >> /\ vt.err = NoErr /\ ~vt.panic
            /\ scopeErr = NoErr
            /\ ~ctx.aborted
        /\ vt.err # NoErr =>
            /\ ctx.aborted /\ ctx.status \in ErrorStatuses /\ ctx.body # << >>
            /\ ran = << "AuthRequired" >>
            /\ scopeErr = NotRun /\ ~handlerRan
        /\ scopeErr \notin {NotRun, NoErr} =>
            /\ ctx.aborted /\ ctx.status \in ErrorStatuses /\ ctx.body # << >>
            /\ ran = << "AuthRequired", "RequiredScopes" >>
            /\ ~handlerRan

\* the token was verified, the scope check failed and stopped the request
C1_Witness ==
    /\ mws[1].cfg.Enabled
    /\ vt.steps # << >> /\ vt.err = NoErr
    /\ scopeErr = NewAuthorizationError("not authorized, missing required scope")
    /\ ctx.aborted /\ ctx.status = StatusForbidden
    /\ idx > Len(ran)

\* the checks of VerifyToken in the order the claim gives them
CheckOrder == << "header", "format", "parse", "kid", "key", "signature", "claims" >>

\* whether the request fails the named check on its own
FailsCheck(check, m, r) ==
    LET parts == SplitN(r.hdr, " ", expectedAuthHeaderParts)
        jwk == getJWKS(m, r.tok.kid)
    IN  CASE check = "header" -> r.hdr = EmptyString
          [] check = "format" ->
                ~(Len(parts) = 2 /\ ToLower(parts[1]) = << "b", "e", "a", "r", "e", "r" >>)
          [] check = "parse" -> Len(parts) < 2 \/ ~ParseSigned(parts[2], r.tok)
          [] check = "kid" -> r.tok.kid = 0
          [] check = "key" -> ~jwk.found
          [] check = "signature" -> ~jwk.found \/ ~VerifySignature(r.tok, jwk.key)
          [] OTHER -> ValidateClaims(r.tok, m.cfg) # ""

\* the error the named check reports
ErrorOfCheck(check, m, r) ==
    CASE check = "header" -> NewAuthenticationError("missing authorization header, expected format: \"Bearer token\"")
      [] check = "format" -> NewAuthenticationError("invalid authorization header, expected format: \"Bearer token\"")
      [] check = "parse" -> NewAuthenticationError("unable to parse auth token")
      [] check = "kid" -> NewAuthenticationError("unable to parse auth token header")
      [] check = "key" -> NewInvalidSigningKeyError
      [] check = "signature" -> NewAuthenticationError("unable to validate auth token")
      [] OTHER -> NewTokenValidationError(ValidateClaims(r.tok, m.cfg))

FailingChecks(m, r) == {i \in 1..Len(CheckOrder) : FailsCheck(CheckOrder[i], m, r)}

\* the position in CheckOrder of the earliest check the request fails, 0 if none
FirstFailing(m, r) ==
    IF FailingChecks(m, r) = {} THEN 0
    ELSE CHOOSE i \in FailingChecks(m, r) : \A j \in FailingChecks(m, r) : i <= j

\* the step of AuthRequired that calls VerifyToken
VerifyTokenStep == Current = "AuthRequired" /\ mws[1].cfg.Enabled /\ vt' # vt

\* C8: VerifyToken returns the error of the earliest check, in the order
\* header, format, parse, key id, key, signature, claims, that the request
\* fails; it performs the checks up to that one and no later one, and makes no
\* JWKS request and leaves the cache alone when an earlier check than the key
\* lookup fails.
C8_EarliestFailingCheck ==
    [][VerifyTokenStep =>
        LET m == mws[1]
            f == FirstFailing(m, req)
        IN  f > 0 =>
              /\ vt'.err = ErrorOfCheck(CheckOrder[f], m, req)
              /\ vt'.steps = SubSeq(CheckOrder, 1, f)
              /\ f < 5 => vt'.fetches = 0 /\ mws'[1].cachedJWKS = m.cachedJWKS]_vars

\* a token without key id whose claims are invalid too is refused for the key id
C8_Witness ==
    /\ vt.err = NewAuthenticationError("unable to parse auth token header")
    /\ req.tok.kid = 0
    /\ ValidateClaims(req.tok, mws[1].cfg) # ""
    /\ vt.steps = << "header", "format", "parse", "kid" >>
    /\ vt.fetches = 0

\* the request carries a parsable token with a key id in a bearer header
CarriesToken(r) ==
    /\ ~FailsCheck("header", mws[1], r) /\ ~FailsCheck("format", mws[1], r)
    /\ ~FailsCheck("parse", mws[1], r) /\ ~FailsCheck("kid", mws[1], r)

\* the key id is absent from the cache and from the key set a refresh obtains
KidAbsent(m, kid) ==
    /\ \A i \in 1..Len(m.cachedJWKS) : m.cachedJWKS[i].kid # kid
    /\ \/ Len(m.cfg.JWKS) > 0
       \/ m.endpoint.status # "ok"
       \/ \A i \in 1..Len(m.endpoint.doc) : m.endpoint.doc[i].kid # kid

\* C9: a token whose key id is absent from the active key set is refused with
\* the invalid-signing-key error, status 401 and message "invalid token signing
\* key", whatever its signature and claims are.
C9_AbsentKidInvalidSigningKey ==
    [][VerifyTokenStep /\ CarriesToken(req) /\ KidAbsent(mws[1], req.tok.kid) =>
        /\ vt'.err = NewAuthenticationErrorFrom(ErrInvalidSigningKey)
        /\ ErrorText(vt'.err) = << "invalid token signing key" >>
        /\ ctx'.aborted /\ ctx'.status = StatusUnauthorized
        /\ ctx'.body = << "invalid token signing key" >>]_vars

\* a refresh was made, the key id is still unknown, and the token's claims are
\* invalid as well
C9_Witness ==
    /\ vt.err = NewAuthenticationErrorFrom(ErrInvalidSigningKey)
    /\ vt.fetches = 1
    /\ mws[1].endpoint.status = "ok"
    /\ ValidateClaims(req.tok, mws[1].cfg) # ""
    /\ ctx.status = StatusUnauthorized

\* the roles the claim value declares: the parts of a space-delimited string,
\* the strings of a list
DeclaredRoles(v) ==
    CASE v.t = "string" -> Split(v.s, " ")
      [] v.t = "list" -> LET strs == SelectSeq(v.l, LAMBDA e : e.isStr)
                         IN  [i \in 1..Len(strs) |-> strs[i].s]
      [] OTHER -> << >>

\* the token is signed by the key the active key set holds for its key id, and
\* has the configured issuer and audience and a window holding the current time
ValidToken(m, r) ==
    /\ CarriesToken(r)
    /\ getJWKS(m, r.tok.kid).found
    /\ VerifySignature(r.tok, getJWKS(m, r.tok.kid).key)
    /\ r.tok.iss = m.cfg.Issuer
    /\ m.cfg.Audience \in r.tok.aud
    /\ r.tok.nbf.set => r.tok.nbf.t <= 0
    /\ r.tok.exp.set => r.tok.exp.t >= 0

\* C10: VerifyToken succeeds on every valid token and returns ClaimMetadata
\* whose Roles are the roles the configured roles claim declares.
C10_ValidTokenRoles ==
    [][VerifyTokenStep /\ ValidToken(mws[1], req) =>
        /\ vt'.err = NoErr /\ ~vt'.panic
        /\ vt'.cm.Roles = DeclaredRoles(ClaimValue(req.tok, mws[1].cfg.RolesClaim))]_vars

\* ------------------------------------------------ composer: the inputs

\* the token of the composer's requests: key (1, 1), scope "a b", roles ["b"],
\* name "n"
TokenA ==
    [BaseToken EXCEPT !.claims = Claims(StringValue(<< "a", " ", "b" >>),
                                        ListValue(<< StrElem(ScopeB) >>),
                                        StringValue(<< "n" >>))]

\* the same token issued by the second provider, key (MaxKid, MaxMat)
TokenB == [TokenA EXCEPT !.kid = MaxKid, !.mat = MaxMat]

\* the same token with a roles list that holds a number
TokenC ==
    [TokenA EXCEPT !.claims = Claims(StringValue(<< "a", " ", "b" >>),
                                     ListValue(<< StrElem(ScopeA), NumElem >>),
                                     StringValue(<< "n" >>))]

ComposerRequests == { MkRequest(HeaderBearer, t) : t \in { TokenA, TokenB, TokenC } }

\* the verifiers a composer is built from:
\*   the first provider, roles in "scope", user in "sub";
\*   the first provider, roles in "roles", user in "name";
\*   the first provider's key, another issuer;
\*   the second provider, its key set behind a URI;
\*   a remote endpoint that is unreachable, one that refuses, one that accepts
\*   and names the subject, one that accepts without details
ComposerVerifiers ==
    { SetupVerifier(DefaultCfg, InlineSetup),
      SetupVerifier([DefaultCfg EXCEPT !.RolesClaim = "roles", !.UsernameClaim = "name"],
                    InlineSetup),
      SetupVerifier([DefaultCfg EXCEPT !.Issuer = Issuer2], InlineSetup),
      SetupVerifier(DefaultCfg,
                    [JWKS |-> << >>, JWKSURI |-> JWKSURI1,
                     cache |-> << MkKey(MaxKid, MaxMat) >>,
                     endpoint |-> Endpoint("ok", << MkKey(MaxKid, MaxMat) >>)]),
      RemoteVerifier(NoAnswer),
      RemoteVerifier(Answer(FALSE, StatusUnauthorized, TRUE, FALSE, FALSE,
                            EmptyString, EmptyString)),
      RemoteVerifier(Answer(FALSE, StatusOK, TRUE, TRUE, TRUE, << "r" >>, EmptyString)),
      RemoteVerifier(Answer(FALSE, StatusOK, TRUE, TRUE, FALSE, EmptyString, EmptyString)) }

\* the lists of at most n verifiers
RECURSIVE VerifierLists(_)
VerifierLists(n) ==
    IF n = 0 THEN { << >> }
    ELSE VerifierLists(n - 1)
         \cup { Append(l, v) : l \in { k \in VerifierLists(n - 1) : Len(k) = n - 1 },
                               v \in ComposerVerifiers }

\* r.Use(mtm.AuthRequired(scopes)); r.GET("/", handler)
Init ==
    /\ req \in ComposerRequests
    /\ scopes = << ScopeA >>
    /\ mws \in VerifierLists(MaxVerifiers)
    /\ chain = << "MultiAuthRequired", "handler" >>
    /\ cons = NoCall
    /\ InitCommon
    /\ EventsIdle

\* ------------------------------------------- composer: MultiTokenMiddleware

\* the goroutines that have not returned
Running == { i \in 1..Len(mws) : gor[i].pc \notin {"idle", "done"} }

\* AuthRequired up to wg.Wait(): the channel is made, the WaitGroup is set to
\* the number of verifiers and one goroutine is started for each
MtmStart ==
    /\ Current = "MultiAuthRequired"
    /\ mpc = "idle"
    /\ mpc' = "wait"
    /\ res' = << >>
    /\ wg' = Len(mws)
    /\ gor' = [i \in 1..Len(mws) |-> Goroutine("verify", EmptyClaimMetadata, NoErr)]
    /\ ran' = Append(ran, "MultiAuthRequired")
    /\ UNCHANGED << req, scopes, mws, chain, idx, ctx, handlerRan, crashed, surfacingErr >>
    /\ UNCHANGED pipelineVars
    /\ UNCHANGED configVars
    /\ UNCHANGED eventsVars
    /\ UNCHANGED jwksVars

\* what a goroutine step leaves alone
GoFrame ==
    UNCHANGED << req, scopes, chain, idx, handlerRan, ran, mpc, surfacingErr, vt, scopeErr, cons, eventsVars, jwksVars >>

\* Middleware.VerifyTokenWithScopes: the VerifyToken call; a panic in a
\* goroutine ends the process
GoVerifyToken(i) ==
    /\ ~crashed
    /\ gor[i].pc = "verify"
    /\ mws[i].kind = "jwt"
    /\ LET r == VerifyToken(mws[i], req)
       IN  /\ mws' = [mws EXCEPT ![i].cachedJWKS = r.cache]
           /\ crashed' = r.panic
           /\ gor' = [gor EXCEPT ![i] =
                        IF r.panic THEN Goroutine("panic", EmptyClaimMetadata, NoErr)
                        ELSE IF r.err # NoErr THEN Goroutine("meta", EmptyClaimMetadata, r.err)
                        ELSE Goroutine("setSubject", r.cm, NoErr)]
    /\ UNCHANGED << ctx, res, wg >>
    /\ GoFrame

\* c.Set(contextKeySubject, cm.Subject)
GoSetSubject(i) ==
    /\ ~crashed
    /\ gor[i].pc = "setSubject"
    /\ ctx' = [ctx EXCEPT !.subject = SetTo(gor[i].cm.Subject)]
    /\ gor' = [gor EXCEPT ![i].pc = "setUser"]
    /\ UNCHANGED << mws, crashed, res, wg >>
    /\ GoFrame

\* c.Set(contextKeyUser, cm.User)
GoSetUser(i) ==
    /\ ~crashed
    /\ gor[i].pc = "setUser"
    /\ ctx' = [ctx EXCEPT !.user = SetTo(gor[i].cm.User)]
    /\ gor' = [gor EXCEPT ![i].pc = "setRoles"]
    /\ UNCHANGED << mws, crashed, res, wg >>
    /\ GoFrame

\* c.Set(contextKeyRoles, cm.Roles)
GoSetRoles(i) ==
    /\ ~crashed
    /\ gor[i].pc = "setRoles"
    /\ ctx' = [ctx EXCEPT !.roles = SetTo(gor[i].cm.Roles)]
    /\ gor' = [gor EXCEPT ![i].pc = "scopes"]
    /\ UNCHANGED << mws, crashed, res, wg >>
    /\ GoFrame

\* m.VerifyScopes(c, scopes) on the roles the context holds now, and the
\* return of VerifyTokenWithScopes
GoVerifyScopes(i) ==
    /\ ~crashed
    /\ gor[i].pc = "scopes"
    /\ LET err == VerifyScopes(mws[i], GetStringSlice(ctx), scopes)
       IN  gor' = [gor EXCEPT ![i] =
                     IF err # NoErr THEN Goroutine("meta", EmptyClaimMetadata, err)
                     ELSE Goroutine("send", gor[i].cm, NoErr)]
    /\ UNCHANGED << mws, ctx, crashed, res, wg >>
    /\ GoFrame

\* RemoteMiddleware.VerifyTokenWithScopes
GoVerifyRemote(i) ==
    /\ ~crashed
    /\ gor[i].pc = "verify"
    /\ mws[i].kind = "remote"
    /\ LET r == RemoteVerify(mws[i].auth)
       IN  gor' = [gor EXCEPT ![i] =
                     Goroutine(IF r.err # NoErr THEN "meta" ELSE "send", r.cm, r.err)]
    /\ UNCHANGED << mws, ctx, crashed, res, wg >>
    /\ GoFrame

\* if err != nil { v.SetMetadata(c, cm) }
GoSetMetadata(i) ==
    /\ ~crashed
    /\ gor[i].pc = "meta"
    /\ ctx' = SetMetadata(ctx, gor[i].cm)
    /\ gor' = [gor EXCEPT ![i].pc = "send"]
    /\ UNCHANGED << mws, crashed, res, wg >>
    /\ GoFrame

\* r <- err: the channel's buffer holds one value per verifier, no send blocks
GoSend(i) ==
    /\ ~crashed
    /\ gor[i].pc = "send"
    /\ res' = Append(res, gor[i].err)
    /\ gor' = [gor EXCEPT ![i].pc = "exit"]
    /\ UNCHANGED << mws, ctx, crashed, wg >>
    /\ GoFrame

\* defer wg.Done()
GoDone(i) ==
    /\ ~crashed
    /\ gor[i].pc = "exit"
    /\ wg' = wg - 1
    /\ gor' = [gor EXCEPT ![i].pc = "done"]
    /\ UNCHANGED << mws, ctx, crashed, res >>
    /\ GoFrame

\* what a step of the composer's handler leaves alone
MtmFrame ==
    UNCHANGED << req, scopes, mws, chain, handlerRan, crashed, ran, gor, wg, vt, scopeErr, cons, eventsVars, jwksVars >>

\* mutant: the results are read without waiting for the goroutines
MtmWaitWithoutWaiting ==
    /\ ~crashed
    /\ mpc = "wait"
    /\ mpc' = "drain"
    /\ UNCHANGED << idx, ctx, res, surfacingErr >>
    /\ MtmFrame

\* wg.Wait(); close(res)
MtmWait ==
    /\ ~crashed
    /\ mpc = "wait"
    /\ wg = 0
    /\ mpc' = "drain"
    /\ UNCHANGED << idx, ctx, res, surfacingErr >>
    /\ MtmFrame

\* one round of "for err := range res": a nil result returns and lets the
\* request through; the first error is kept; a later error replaces a kept
\* error that is ErrMiddlewareRemote or ErrInvalidSigningKey
MtmReceive ==
    /\ ~crashed
    /\ mpc = "drain"
    /\ res # << >>
    /\ res' = Tail(res)
    /\ LET err == Head(res)
       IN  /\ mpc' = IF err = NoErr THEN "done" ELSE "drain"
           /\ idx' = IF err = NoErr THEN idx + 1 ELSE idx
           /\ surfacingErr' =
                IF err = NoErr THEN surfacingErr
                ELSE IF surfacingErr = NoErr THEN err
                ELSE IF \/ ErrorsIs(surfacingErr, ErrMiddlewareRemote)
                        \/ ErrorsIs(surfacingErr, ErrInvalidSigningKey)
                THEN err
                ELSE surfacingErr
    /\ UNCHANGED ctx
    /\ MtmFrame

\* the end of the loop: if surfacingErr != nil { AbortBecauseOfError(c, surfacingErr) }
MtmFinish ==
    /\ ~crashed
    /\ mpc = "drain"
    /\ res = << >>
    /\ mpc' = "done"
    /\ idx' = idx + 1
    /\ ctx' = IF surfacingErr # NoErr THEN AbortBecauseOfError(ctx, surfacingErr) ELSE ctx
    /\ UNCHANGED << res, surfacingErr >>
    /\ MtmFrame

Next ==
    \/ MtmStart
    \/ \E i \in 1..Len(mws) : GoVerifyToken(i)
    \/ \E i \in 1..Len(mws) : GoSetSubject(i)
    \/ \E i \in 1..Len(mws) : GoSetUser(i)
    \/ \E i \in 1..Len(mws) : GoSetRoles(i)
    \/ \E i \in 1..Len(mws) : GoVerifyScopes(i)
    \/ \E i \in 1..Len(mws) : GoVerifyRemote(i)
    \/ \E i \in 1..Len(mws) : GoSetMetadata(i)
    \/ \E i \in 1..Len(mws) : GoSend(i)
    \/ \E i \in 1..Len(mws) : GoDone(i)
    \/ MtmWait
    \/ MtmReceive
    \/ MtmFinish
    \/ Handler

Spec == Init /\ [][Next]_vars

\* ------------------------------------------------ claims on the composer

\* VerifyTokenWithScopes of verifier v for the request, run on its own with a
\* context no other verifier touches
VerifiesAlone(v) ==
    IF v.kind = "remote"
    THEN [panic |-> FALSE, cm |-> RemoteVerify(v.auth).cm, err |-> RemoteVerify(v.auth).err]
    ELSE LET r == VerifyToken(v, req)
             c == [NewContext EXCEPT !.roles = SetTo(r.cm.Roles)]
             err == VerifyScopes(v, GetStringSlice(c), scopes)
         IN  IF r.panic THEN [panic |-> TRUE, cm |-> EmptyClaimMetadata, err |-> NoErr]
             ELSE IF r.err # NoErr
             THEN [panic |-> FALSE, cm |-> EmptyClaimMetadata, err |-> r.err]
             ELSE IF err # NoErr
             THEN [panic |-> FALSE, cm |-> EmptyClaimMetadata, err |-> err]
             ELSE [panic |-> FALSE, cm |-> r.cm, err |-> NoErr]

AcceptsAlone(i) == ~VerifiesAlone(mws[i]).panic /\ VerifiesAlone(mws[i]).err = NoErr
RejectsAlone(i) == ~VerifiesAlone(mws[i]).panic /\ VerifiesAlone(mws[i]).err # NoErr

\* the composer's handler has returned
Decided == mpc = "done"

\* C2: a composer of two verifiers, one that accepts the request's token with
\* the required scopes and one that rejects it, lets the request through,
\* whichever of the two accepts and in whatever order they finish.
C2_OneOfTwoAccepts ==
    /\ Decided
    /\ Len(mws) = 2
    /\ \E i, j \in 1..Len(mws) : i # j /\ AcceptsAlone(i) /\ RejectsAlone(j)
    => ~ctx.aborted

\* the invalid-signing-key error and the remote endpoint error, by what the
\* error was made from
IsInvalidSigningKey(e) == e.type = "AuthError" /\ e.inner = "ErrInvalidSigningKey"
IsMiddlewareRemote(e) == e.type = "wrapError" /\ e.inner = "ErrMiddlewareRemote"

\* C3: when every verifier rejected and one of the errors is neither the
\* invalid-signing-key error nor the remote endpoint error, the error the
\* composer surfaces is neither of the two, in every order of delivery.
C3_SpecificErrorSurfaces ==
    /\ Decided
    /\ Len(mws) > 0
    /\ \A i \in 1..Len(mws) : gor[i].err # NoErr
    /\ \E i \in 1..Len(mws) :
        ~IsInvalidSigningKey(gor[i].err) /\ ~IsMiddlewareRemote(gor[i].err)
    => /\ ~IsInvalidSigningKey(surfacingErr)
       /\ ~IsMiddlewareRemote(surfacingErr)

\* C4: the composer lets the request through exactly if one of its verifiers
\* accepts the request, in every interleaving of the verifiers.
C4_DecisionIndependentOfInterleaving ==
    Decided /\ Len(mws) > 0 =>
        (~ctx.aborted <=> \E i \in 1..Len(mws) : AcceptsAlone(i))

\* C5: when the request is let through because a verifier succeeded, the
\* subject and the user in the context are those of the claim metadata a
\* verifier that succeeded has returned.
C5_IdentityOfSucceedingVerifier ==
    /\ Decided
    /\ ~ctx.aborted
    /\ \E i \in 1..Len(mws) : gor[i].err = NoErr
    => \E i \in 1..Len(mws) :
        /\ gor[i].err = NoErr
        /\ GetString(ctx.subject) = gor[i].cm.Subject
        /\ GetString(ctx.user) = gor[i].cm.User

\* C6: until all verifiers have returned no step changes the context, and a
\* verifier's scope check reads the roles this verifier has derived itself.
C6_VerifiersShareNoState ==
    [][/\ mpc = "wait" => ctx' = ctx
       /\ \A i \in 1..Len(mws) :
            gor[i].pc = "scopes" /\ gor'[i].pc # "scopes" =>
                GetStringSlice(ctx) = gor[i].cm.Roles]_vars

\* the goroutines that have sent their result
Sent == { i \in 1..Len(mws) : gor[i].pc \in {"exit", "done"} }

AllReturned == mpc # "idle" /\ \A i \in 1..Len(mws) : gor[i].pc = "done"

\* the steps of the composer's handler after wg.Wait() has been reached
MtmNext == MtmWait \/ MtmReceive \/ MtmFinish

C7_Invariant ==
    /\ DOMAIN gor = 1..Len(mws)
    /\ mpc = "idle" => res = << >> /\ \A i \in 1..Len(mws) : gor[i].pc = "idle"
    /\ mpc = "wait" =>
        /\ Len(res) = Cardinality(Sent)
        /\ wg = Cardinality({ i \in 1..Len(mws) : gor[i].pc # "done" })
    /\ mpc \in {"drain", "done"} => AllReturned /\ Len(res) <= Len(mws)
    /\ ctx.aborted \/ handlerRan \/ surfacingErr # NoErr \/ idx > 1 => AllReturned
    /\ ctx.aborted \/ idx > 1 => Decided
    \* once all have returned the handler can always take its next step
    /\ AllReturned /\ ~Decided => ENABLED MtmNext

C7_Step ==
    /\ mpc # "idle" => /\ mpc' # "idle"
                       /\ \A i \in 1..Len(mws) : gor[i].pc = "done" => gor'[i] = gor[i]
                       /\ \A i \in Sent : gor'[i].err = gor[i].err
    /\ mpc = "wait" /\ mpc' = "drain" => Len(res) = Len(mws)
    \* once all have returned every step brings the decision closer: the wait
    \* ends, or a result is taken from the channel, or the decision is made
    /\ AllReturned /\ ~Decided =>
        \/ mpc = "wait" /\ mpc' = "drain"
        \/ mpc' = "drain" /\ Len(res') < Len(res)
        \/ Decided'
    /\ Decided => Decided' /\ ctx'.aborted = ctx.aborted /\ surfacingErr' = surfacingErr

\* C7: one verification is started for each verifier, each delivers one
\* result, the results are read and the request let through or aborted only
\* after all verifications have returned, and once all have returned the
\* handler comes, in at most one step for each result and two more, to one
\* decision, which is never changed.
C7_OneDecisionAfterAllReturn ==
    /\ []C7_Invariant
    /\ [][C7_Step]_vars

\* two verifiers have returned, the first result read was a success and let
\* the request through while the other result was still in the channel
C7_Witness ==
    /\ Len(mws) = 2
    /\ AllReturned
    /\ Decided
    /\ ~ctx.aborted
    /\ Len(res) = 1

\* ------------------------------------------------------- claims on expiry

\* the request gets as far as the validation of the claims: bearer header,
\* parsable token, known key, valid signature
ReachesClaims(m, r) ==
    /\ CarriesToken(r)
    /\ getJWKS(m, r.tok.kid).found
    /\ VerifySignature(r.tok, getJWKS(m, r.tok.kid).key)

\* the token's issuer and audience are the configured ones
IssuerAudienceValid(m, r) ==
    /\ m.cfg.Issuer = EmptyString \/ r.tok.iss = m.cfg.Issuer
    /\ m.cfg.Audience \in r.tok.aud

\* VerifyToken has refused the token as expired, and the request was aborted
\* with status 401
RefusedAsExpired ==
    /\ vt'.err = NewTokenValidationError("token is expired (exp)")
    /\ vt'.err.code = StatusUnauthorized
    /\ ctx'.aborted /\ ctx'.status = StatusUnauthorized

\* C11 (as stated): every token whose expiry time lies in the past is refused
\* as expired, even when signature, issuer and audience are valid.
C11_ExpiredTokenRefused ==
    [][/\ VerifyTokenStep
       /\ ReachesClaims(mws[1], req) /\ IssuerAudienceValid(mws[1], req)
       /\ req.tok.exp.set /\ req.tok.exp.t < 0
       => RefusedAsExpired]_vars

\* C11 (amended): a token whose expiry time lies more than the validator's
\* leeway of one minute in the past, and whose not-before time lies no more
\* than the leeway in the future, is refused as expired when signature, issuer
\* and audience are valid; a token that expired no more than the leeway ago is
\* not refused as expired.
C11_ExpiredBeyondLeewayRefused ==
    [][/\ VerifyTokenStep
       /\ ReachesClaims(mws[1], req) /\ IssuerAudienceValid(mws[1], req)
       /\ req.tok.exp.set
       /\ ~(req.tok.nbf.set /\ req.tok.nbf.t > DefaultLeeway)
       => /\ req.tok.exp.t < 0 - DefaultLeeway => RefusedAsExpired
          /\ req.tok.exp.t >= 0 - DefaultLeeway => ~RefusedAsExpired]_vars

\* a token that expired beyond the leeway, otherwise valid, was refused as
\* expired
C11_Witness ==
    /\ ReachesClaims(mws[1], req) /\ IssuerAudienceValid(mws[1], req)
    /\ req.tok.exp.set /\ req.tok.exp.t < 0 - DefaultLeeway
    /\ vt.err = NewTokenValidationError("token is expired (exp)")
    /\ ctx.aborted /\ ctx.status = StatusUnauthorized

\* ----------------------------------------------- claims on the key lookup

\* the key set holds a key with the key id
HasKid(jwks, kid) == \E i \in 1..Len(jwks) : jwks[i].kid = kid

\* the first key of the key set with the key id
FirstWithKid(jwks, kid) ==
    jwks[CHOOSE i \in 1..Len(jwks) :
            jwks[i].kid = kid /\ \A j \in 1..(i - 1) : jwks[j].kid # kid]

\* the step of AuthRequired in which VerifyToken looks up the signing key
KeyLookupStep == VerifyTokenStep /\ CarriesToken(req)

\* C12: a key lookup fetches the key set only when the key id is missing from
\* the cache and the key set is not an inline one, and then once; a key id in
\* the cache is answered from the cache; after a successful fetch the lookup
\* is made once more on the fetched set; a miss on an inline key set, a failed
\* fetch and a miss on the fetched set end the lookup with not-found.
C12_OneRefreshOnMiss ==
    [][KeyLookupStep =>
        LET m == mws[1]
            kid == req.tok.kid
            inline == Len(m.cfg.JWKS) > 0
            notFound == vt'.err = NewInvalidSigningKeyError
        IN  /\ vt'.fetches \in {0, 1}
            /\ vt'.fetches = 1 <=> ~HasKid(m.cachedJWKS, kid) /\ ~inline
            /\ vt'.fetches = 0 => mws'[1].cachedJWKS = m.cachedJWKS
            /\ HasKid(m.cachedJWKS, kid) => ~notFound
            /\ ~HasKid(m.cachedJWKS, kid) /\ inline => notFound
            /\ vt'.fetches = 1 /\ m.endpoint.status # "ok" => notFound
            /\ vt'.fetches = 1 /\ m.endpoint.status = "ok" =>
                /\ mws'[1].cachedJWKS = m.endpoint.doc
                /\ notFound <=> ~HasKid(m.endpoint.doc, kid)
                /\ ~notFound =>
                    ("signature" \in Elems(vt'.steps) /\ vt'.err.msg = "unable to validate auth token"
                        <=> ~VerifySignature(req.tok, FirstWithKid(m.endpoint.doc, kid)))]_vars

\* the key id was missing from the cache, one fetch was made and the key of
\* the fetched set verified the token
C12_Witness ==
    /\ CarriesToken(req)
    /\ vt.fetches = 1
    /\ vt.err = NoErr /\ vt.steps # << >>
    /\ HasKid(mws[1].cachedJWKS, req.tok.kid)
    /\ mws[1].cachedJWKS = mws[1].endpoint.doc

\* --------------------------------------------- construction of a middleware

\* mw, err := NewAuthMiddleware(cfg); the router is set up when err is nil
InitConfig ==
    /\ req \in ConfigRequests
    /\ scopes = << ScopeA >>
    /\ mws = << >>
    /\ chain = << "AuthRequired", "RequiredScopes", "handler" >>
    /\ cons \in { Construction(c, e, FALSE, NoErr, 0) : c \in Configs, e \in Endpoints }
    /\ InitCommon
    /\ EventsIdle

NewAuthMiddlewareCall ==
    /\ ~cons.called
    /\ LET r == NewAuthMiddleware(cons.cfg, cons.endpoint)
       IN  /\ cons' = [cons EXCEPT !.called = TRUE, !.err = r.err, !.fetches = r.fetches]
           /\ mws' = IF r.err = NoErr THEN << r.mw >> ELSE << >>
    /\ UNCHANGED << req, scopes, chain, idx, ctx, handlerRan, crashed, ran >>
    /\ UNCHANGED pipelineVars
    /\ UNCHANGED composerVars
    /\ UNCHANGED eventsVars
    /\ UNCHANGED jwksVars

\* a middleware was constructed and serves the request
Built == cons.called /\ Len(mws) = 1

NextConfig ==
    \/ NewAuthMiddlewareCall
    \/ Built /\ AuthRequired
    \/ Built /\ RequiredScopes
    \/ Built /\ Handler

SpecConfig == InitConfig /\ [][NextConfig]_vars

\* ------------------------------------------------- claims on construction

\* C13: NewAuthMiddleware on an enabled AuthConfig with both JWKSURI and an
\* inline JWKS, or with neither, returns an error that is ErrInvalidAuthConfig;
\* a middleware is constructed only when exactly one of the two is set.
C13_ConfigErrorKind ==
    cons.called /\ cons.cfg.Enabled =>
        LET uri == cons.cfg.JWKSURI # EmptyString
            inline == Len(cons.cfg.JWKS) > 0
        IN  /\ (uri /\ inline) \/ (~uri /\ ~inline) =>
                ErrorsIs(cons.err, ErrInvalidAuthConfig)
            /\ cons.err = NoErr => (uri /\ ~inline) \/ (~uri /\ inline)

\* ------------------------------------------------ claims on the scope check

\* the step of RequiredScopes that calls VerifyScopes
VerifyScopesStep == Current = "RequiredScopes" /\ mws[1].cfg.Enabled

RefusedForScope ==
    /\ scopeErr' = NewAuthorizationError("not authorized, missing required scope")
    /\ ctx'.aborted /\ ctx'.status = StatusForbidden

\* C15: with strategy all VerifyScopes succeeds exactly if every needed scope
\* is among the roles of the request, for empty lists and lists with repeated
\* entries as well; otherwise the request is refused for a missing scope.
C15_AllIsSubset ==
    [][VerifyScopesStep /\ mws[1].cfg.RoleValidationStrategy = "all" =>
        /\ scopeErr' = NoErr <=> Elems(scopes) \subseteq Elems(GetStringSlice(ctx))
        /\ scopeErr' # NoErr => RefusedForScope]_vars

\* the roles held one of two needed scopes and the request was refused
C15_Witness ==
    /\ mws[1].cfg.Enabled /\ mws[1].cfg.RoleValidationStrategy = "all"
    /\ Elems(scopes) \cap Elems(GetStringSlice(ctx)) # {}
    /\ ~(Elems(scopes) \subseteq Elems(GetStringSlice(ctx)))
    /\ scopeErr = NewAuthorizationError("not authorized, missing required scope")
    /\ ctx.status = StatusForbidden

IsAuthorizationError(e) == e.type = "AuthError" /\ e = NewAuthorizationError(e.msg)

\* C17: whenever AuthRequired or RequiredScopes hands an error to
\* AbortBecauseOfError the request is aborted, with status 403 exactly if the
\* error is an authorization error; authentication errors, token validation
\* errors and errors that are no AuthError are answered with 401.
C17_AbortStatus ==
    [][/\ Current \in {"AuthRequired", "RequiredScopes"}
       /\ mws[1].cfg.Enabled
       /\ ~crashed'
       => LET err == IF Current = "AuthRequired" THEN vt'.err ELSE scopeErr'
          IN  err # NoErr =>
                /\ ctx'.aborted
                /\ ctx'.status \in {StatusUnauthorized, StatusForbidden}
                /\ ctx'.status = StatusForbidden <=> IsAuthorizationError(err)
                /\ ~IsAuthorizationError(err) => ctx'.status = StatusUnauthorized
                /\ ~ErrorsAs(err, "AuthError") => ctx'.status = StatusUnauthorized]_vars

\* an error that is no AuthError was answered with 401 and the handler was
\* not reached
C17_Witness ==
    /\ scopeErr = ErrInvalidAuthConfig
    /\ ~ErrorsAs(scopeErr, "AuthError")
    /\ ctx.aborted /\ ctx.status = StatusUnauthorized
    /\ idx > Len(chain) \/ Current = ""
    /\ ~handlerRan

\* C18: with Enabled false NewAuthMiddleware returns a middleware and no
\* error, without a request to the JWKS endpoint and without a key set in
\* the cache, whatever JWKSURI and JWKS are; AuthRequired and RequiredScopes
\* then return at once: VerifyToken and VerifyScopes are not called, the
\* request is not aborted, no key of the context is set, and the handlers
\* run in the order of the chain.
C18_DisabledIsNoOp ==
    cons.called /\ ~cons.cfg.Enabled =>
        /\ cons.err = NoErr /\ cons.fetches = 0
        /\ Len(mws) = 1 /\ mws[1].cachedJWKS = << >>
        /\ vt = NoVT /\ scopeErr = NotRun
        /\ ~ctx.aborted /\ ~crashed
        /\ ctx.subject = Unset /\ ctx.user = Unset /\ ctx.roles = Unset
        /\ ran = SubSeq(chain, 1, Len(ran))
        /\ idx = Len(ran) + 1
        /\ handlerRan => ctx.status = StatusOK

\* a request without Authorization header reached the handler of a disabled
\* middleware whose configuration names a URI and an inline key set
C18_Witness ==
    /\ cons.called /\ ~cons.cfg.Enabled
    /\ cons.cfg.JWKSURI # EmptyString /\ Len(cons.cfg.JWKS) > 0
    /\ req.hdr = EmptyString
    /\ ran = chain /\ handlerRan
    /\ ctx.status = StatusOK

\* ------------------------------------------------------- remote middleware

\* the statuses the remote endpoint answers with: the three of the protocol,
\* a success status that is not 200 and a server error
RemoteStatusCodes == { StatusOK, StatusUnauthorized, StatusForbidden, 204, 500 }

\* the answers of the remote endpoint; with neterr the client gives up
\* (timeout, connection failure) before the answer the server would give
RemoteAnswers ==
    { Answer(n, code, j, a, d, s, u) :
        n \in BOOLEAN, code \in RemoteStatusCodes, j \in BOOLEAN, a \in BOOLEAN,
        d \in BOOLEAN, s \in { EmptyString, << "r" >> }, u \in { EmptyString, << "n" >> } }

\* r.Use(rm.AuthRequired(scopes)); r.GET("/", handler)
InitRemote ==
    /\ req \in { MkRequest(h, BaseToken) : h \in { HeaderBearer, EmptyString } }
    /\ scopes = << ScopeA >>
    /\ mws \in { << RemoteVerifier(a) >> : a \in RemoteAnswers }
    /\ chain = << "RemoteAuthRequired", "handler" >>
    /\ cons = NoCall
    /\ InitCommon
    /\ EventsIdle

\* RemoteMiddleware.AuthRequired(scopes)
RemoteAuthRequired ==
    /\ Current = "RemoteAuthRequired"
    /\ ran' = Append(ran, "RemoteAuthRequired")
    /\ idx' = idx + 1
    /\ LET r == RemoteVerify(mws[1].auth)
       IN  /\ vt' = VTResult(r.cm, r.err, << >>, << >>, 0, FALSE)
           /\ ctx' = IF r.err # NoErr THEN AbortBecauseOfError(ctx, r.err)
                     ELSE SetMetadata(ctx, r.cm)
    /\ UNCHANGED << req, scopes, mws, chain, handlerRan, crashed, scopeErr >>
    /\ UNCHANGED composerVars
    /\ UNCHANGED configVars
    /\ UNCHANGED eventsVars
    /\ UNCHANGED jwksVars

NextRemote == RemoteAuthRequired \/ Handler

SpecRemote == InitRemote /\ [][NextRemote]_vars

\* RemoteMiddleware.AuthRequired has returned
RemoteReturned == Len(ran) >= 1 /\ ran[1] = "RemoteAuthRequired"

\* the remote call failed, or was answered outside the protocol
RemoteCallFailed(a) ==
    a.neterr \/ a.code \notin { StatusOK, StatusUnauthorized, StatusForbidden }

\* C19: when the remote call times out or cannot connect, or the answer has a
\* status other than 200, 401 and 403, VerifyTokenWithScopes returns an error
\* that wraps ErrMiddlewareRemote and no claim metadata, and AuthRequired
\* aborts the request: the handler does not run and no key is set.
C19_RemoteFailureIsNoPass ==
    RemoteReturned /\ RemoteCallFailed(mws[1].auth) =>
        /\ vt.err # NoErr
        /\ ErrorsIs(vt.err, ErrMiddlewareRemote)
        /\ vt.cm = EmptyClaimMetadata
        /\ ctx.aborted /\ ctx.status = StatusUnauthorized
        /\ ~handlerRan
        /\ ctx.subject = Unset /\ ctx.user = Unset

\* the client gave up on an endpoint that would have answered 200 with
\* auth = true, and the request was aborted
C19_Witness ==
    /\ RemoteReturned
    /\ mws[1].auth.neterr
    /\ mws[1].auth.code = StatusOK /\ mws[1].auth.json /\ mws[1].auth.authed
    /\ ErrorsIs(vt.err, ErrMiddlewareRemote)
    /\ ctx.aborted /\ ~handlerRan

\* C20: the decision of VerifyTokenWithScopes agrees with the status of the
\* answer: it returns no error only for an answer with status 200 and
\* auth = true, and an answer with status 401 or 403 ends in an error and an
\* aborted request, whatever its body is.
C20_DecisionAgreesWithStatus ==
    RemoteReturned =>
        LET a == mws[1].auth
        IN  /\ vt.err = NoErr => ~a.neterr /\ a.code = StatusOK /\ a.json /\ a.authed
            /\ ~a.neterr /\ a.code \in { StatusUnauthorized, StatusForbidden } =>
                vt.err # NoErr /\ ctx.aborted /\ ~handlerRan

\* ------------------------------------------- events: controller registry

\* the key-value bucket of the nats.go client, on the id's key

\* a message is stored on the key: the stream's next sequence is its revision
Publish(s, live, bad) ==
    [s EXCEPT !.seq = @ + 1, !.entry = Entry(s.seq + 1, live, bad)]

\* KeyValue.Create: fails on a key that holds a value
KVCreate(s) ==
    IF ~s.up THEN [err |-> ErrTimeout, rev |-> 0, kv |-> s]
    ELSE IF s.entry.rev # 0 /\ s.entry.live
    THEN [err |-> ErrKeyExists, rev |-> 0, kv |-> s]
    ELSE [err |-> NoErr, rev |-> s.seq + 1, kv |-> Publish(s, TRUE, FALSE)]

\* KeyValue.Update: fails unless last is the revision of the key's last message
KVUpdate(s, last) ==
    IF ~s.up THEN [err |-> ErrTimeout, rev |-> 0, kv |-> s]
    ELSE IF s.entry.rev # last
    THEN [err |-> ErrWrongLastSequence, rev |-> 0, kv |-> s]
    ELSE [err |-> NoErr, rev |-> s.seq + 1, kv |-> Publish(s, TRUE, FALSE)]

\* KeyValue.Delete: stores a delete marker
KVDelete(s) ==
    IF ~s.up THEN [err |-> ErrTimeout, kv |-> s]
    ELSE [err |-> NoErr, kv |-> Publish(s, FALSE, FALSE)]

\* KeyValue.Get
KVGet(s) ==
    IF ~s.up THEN [err |-> ErrTimeout, entry |-> NoEntry]
    ELSE IF s.entry.rev = 0 \/ ~s.entry.live
    THEN [err |-> ErrKeyNotFound, entry |-> NoEntry]
    ELSE [err |-> NoErr, entry |-> s.entry]

\* kv.CreateOrBindKVBucket: binds the bucket, creating it with the options
\* when it does not exist
CreateOrBindKVBucket(s, ttl) ==
    IF ~s.up THEN [err |-> ErrTimeout, handle |-> NilRegistry, kv |-> s]
    ELSE [err |-> NoErr, handle |-> Handle(s.binds + 1),
          kv |-> [s EXCEPT !.binds = @ + 1, !.exists = TRUE,
                           !.ttl = IF s.exists THEN @ ELSE ttl]]

authVars == << req, scopes, mws, chain, idx, ctx, handlerRan, crashed, vt, scopeErr,
               ran, gor, res, wg, mpc, surfacingErr, cons, refreshing, observed >>

NoID == workerUUID(EmptyString, 0, 0)

\* a process that has called GetID(app) and nothing else
InitRegistry ==
    /\ req = MkRequest(EmptyString, BaseToken)
    /\ scopes = << >>
    /\ mws = << >>
    /\ chain = << >>
    /\ cons = NoCall
    /\ InitCommon
    /\ registry = NilRegistry
    /\ kv \in { Server(up, exists, ttl, 0, NoEntry, 0) :
                up \in BOOLEAN, exists \in BOOLEAN, ttl \in BOOLEAN }
    /\ id \in { GetID(app, u) : app \in AppNames, u \in UUIDs }
    /\ ret = NoRet
    /\ disturbed = FALSE
    /\ stream = NoStream

\* mutant: the registry is bound again by every call
InitializeRegistryRebinding(name, ttl) ==
    /\ LET r == CreateOrBindKVBucket(kv, ttl)
       IN  /\ registry' = r.handle
           /\ kv' = r.kv
           /\ ret' = Ret(name, r.err, TRUE, NoID, 0)
    /\ kv.binds < MaxRev
    /\ UNCHANGED << id, disturbed >>
    /\ UNCHANGED authVars
    /\ UNCHANGED natsVars

\* InitializeRegistryWithOptions(njs, opts...), for the two callers name
InitializeRegistry(name, ttl) ==
    /\ IF registry # NilRegistry
       THEN /\ ret' = Ret(name, ErrRegistryPreviouslyInitialized, FALSE, NoID, 0)
            /\ UNCHANGED << registry, kv >>
       ELSE LET r == CreateOrBindKVBucket(kv, ttl)
            IN  /\ registry' = r.handle
                /\ kv' = r.kv
                /\ ret' = Ret(name, r.err, TRUE, NoID, 0)
    /\ UNCHANGED << id, disturbed >>
    /\ UNCHANGED authVars
    /\ UNCHANGED natsVars

\* without options: no TTL
InitializeRegistryWithOptions == InitializeRegistry("InitializeRegistryWithOptions", FALSE)

\* with replicas, description and the registry TTL
InitializeActiveControllerRegistry ==
    InitializeRegistry("InitializeActiveControllerRegistry", TRUE)

\* mutant: the registry is used without the nil check
RegisterControllerUnchecked ==
    /\ kv.seq < MaxRev
    /\ LET r == KVCreate(kv)
       IN  /\ ret' = Ret("RegisterController", r.err, TRUE, NoID, 0)
           /\ kv' = r.kv
           /\ id' = IF r.err = NoErr THEN [id EXCEPT !.kvVersion = r.rev] ELSE id
           /\ disturbed' = IF r.err = NoErr THEN FALSE ELSE disturbed
    /\ UNCHANGED registry
    /\ UNCHANGED authVars
    /\ UNCHANGED natsVars

RegisterController ==
    /\ kv.seq < MaxRev
    /\ IF registry = NilRegistry
       THEN /\ ret' = Ret("RegisterController", ErrRegistryUninitialized, FALSE, NoID, 0)
            /\ UNCHANGED << kv, id, disturbed >>
       ELSE LET r == KVCreate(kv)
            IN  /\ ret' = Ret("RegisterController", r.err, TRUE, NoID, 0)
                /\ kv' = r.kv
                /\ id' = IF r.err = NoErr THEN [id EXCEPT !.kvVersion = r.rev] ELSE id
                /\ disturbed' = IF r.err = NoErr THEN FALSE ELSE disturbed
    /\ UNCHANGED registry
    /\ UNCHANGED authVars
    /\ UNCHANGED natsVars

\* mutant: the revision is stored whatever Update returned
ControllerCheckinAlwaysTracking ==
    /\ kv.seq < MaxRev
    /\ IF registry = NilRegistry
       THEN /\ ret' = Ret("ControllerCheckin", ErrRegistryUninitialized, FALSE, NoID, 0)
            /\ UNCHANGED << kv, id, disturbed >>
       ELSE LET r == KVUpdate(kv, id.kvVersion)
            IN  /\ ret' = Ret("ControllerCheckin", r.err, TRUE, NoID, 0)
                /\ kv' = r.kv
                /\ id' = [id EXCEPT !.kvVersion = r.rev]
                /\ disturbed' = IF r.err = NoErr THEN FALSE ELSE disturbed
    /\ UNCHANGED registry
    /\ UNCHANGED authVars
    /\ UNCHANGED natsVars

ControllerCheckin ==
    /\ kv.seq < MaxRev
    /\ IF registry = NilRegistry
       THEN /\ ret' = Ret("ControllerCheckin", ErrRegistryUninitialized, FALSE, NoID, 0)
            /\ UNCHANGED << kv, id, disturbed >>
       ELSE LET r == KVUpdate(kv, id.kvVersion)
            IN  /\ ret' = Ret("ControllerCheckin", r.err, TRUE, NoID, 0)
                /\ kv' = r.kv
                /\ id' = IF r.err = NoErr THEN [id EXCEPT !.kvVersion = r.rev] ELSE id
                /\ disturbed' = IF r.err = NoErr THEN FALSE ELSE disturbed
    /\ UNCHANGED registry
    /\ UNCHANGED authVars
    /\ UNCHANGED natsVars

DeregisterController ==
    /\ kv.seq < MaxRev
    /\ IF registry = NilRegistry
       THEN /\ ret' = Ret("DeregisterController", ErrRegistryUninitialized, FALSE, NoID, 0)
            /\ UNCHANGED kv
       ELSE LET r == KVDelete(kv)
            IN  /\ ret' = Ret("DeregisterController", r.err, TRUE, NoID, 0)
                /\ kv' = r.kv
    /\ UNCHANGED << registry, id, disturbed >>
    /\ UNCHANGED authVars
    /\ UNCHANGED natsVars

\* LastContact: the time is stood for by the revision of the record read
LastContact ==
    /\ IF registry = NilRegistry
       THEN ret' = Ret("LastContact", ErrRegistryUninitialized, FALSE, NoID, 0)
       ELSE LET r == KVGet(kv)
            IN  ret' = IF r.err # NoErr THEN Ret("LastContact", r.err, TRUE, NoID, 0)
                       ELSE IF r.entry.bad
                       THEN Ret("LastContact", ErrBadRegistryData, TRUE, NoID, 0)
                       ELSE Ret("LastContact", NoErr, TRUE, NoID, r.entry.rev)
    /\ UNCHANGED << registry, kv, id, disturbed >>
    /\ UNCHANGED authVars
    /\ UNCHANGED natsVars

\* ControllerIDFromString(id.String())
ControllerIDRoundTrip ==
    /\ LET r == ControllerIDFromString(String(id))
       IN  ret' = Ret("ControllerIDFromString", r.err, FALSE, r.id, 0)
    /\ UNCHANGED << registry, kv, id, disturbed >>
    /\ UNCHANGED authVars
    /\ UNCHANGED natsVars

\* another process writes the id's key
OtherWriter ==
    /\ kv.up /\ kv.exists /\ kv.seq < MaxRev
    /\ \E bad \in BOOLEAN : kv' = Publish(kv, TRUE, bad)
    /\ disturbed' = TRUE
    /\ UNCHANGED << registry, id, ret >>
    /\ UNCHANGED authVars
    /\ UNCHANGED natsVars

\* the bucket's TTL passes: the messages on the key are gone
Expire ==
    /\ kv.ttl /\ kv.entry.rev # 0
    /\ kv' = [kv EXCEPT !.entry = NoEntry]
    /\ disturbed' = TRUE
    /\ UNCHANGED << registry, id, ret >>
    /\ UNCHANGED authVars
    /\ UNCHANGED natsVars

\* the connection to the server is lost or comes back
Outage ==
    /\ kv' = [kv EXCEPT !.up = ~@]
    /\ UNCHANGED << registry, id, ret, disturbed >>
    /\ UNCHANGED authVars
    /\ UNCHANGED natsVars

NextRegistry ==
    \/ InitializeRegistryWithOptions
    \/ InitializeActiveControllerRegistry
    \/ RegisterController
    \/ ControllerCheckin
    \/ DeregisterController
    \/ LastContact
    \/ ControllerIDRoundTrip
    \/ OtherWriter
    \/ Expire
    \/ Outage

SpecRegistry == InitRegistry /\ [][NextRegistry]_vars

\* --------------------------------------------------- claims on the registry

\* a call of one of the four operations on a controller id
RegistryOperation ==
    RegisterController \/ ControllerCheckin \/ DeregisterController \/ LastContact

\* C21: while the registry is not initialized, RegisterController,
\* ControllerCheckin, DeregisterController and LastContact each return
\* ErrRegistryUninitialized, perform no operation of the key-value store and
\* leave the store and the id, with the revision it tracks, as they were.
C21_UninitializedRegistryRefuses ==
    [][registry = NilRegistry /\ RegistryOperation =>
        /\ ret'.err = ErrRegistryUninitialized
        /\ ~ret'.kvop
        /\ kv' = kv
        /\ id' = id
        /\ registry' = NilRegistry]_vars

\* LastContact was refused although the server is reachable and the bucket
\* exists
C21_Witness ==
    /\ registry = NilRegistry
    /\ kv.up /\ kv.exists
    /\ ret.op = "LastContact"
    /\ ret.err = ErrRegistryUninitialized
    /\ id.kvVersion = 0 /\ kv.seq = 0

\* a call of one of the two initialization functions
RegistryInitialization ==
    InitializeRegistryWithOptions \/ InitializeActiveControllerRegistry

\* C22: once the registry is bound, every call of
\* InitializeRegistryWithOptions or InitializeActiveControllerRegistry returns
\* ErrRegistryPreviouslyInitialized without a call to the server and leaves
\* the handle as it was; the process binds a handle at most once.
C22_BoundAtMostOnce ==
    /\ [](kv.binds <= 1 /\ (registry # NilRegistry => registry = Handle(1)))
    /\ [][registry # NilRegistry /\ RegistryInitialization =>
            /\ ret'.err = ErrRegistryPreviouslyInitialized
            /\ ~ret'.kvop
            /\ registry' = registry
            /\ kv' = kv]_vars

\* a second initialization was refused while the server was reachable
C22_Witness ==
    /\ registry = Handle(1)
    /\ kv.up /\ kv.binds = 1
    /\ ret.op = "InitializeActiveControllerRegistry"
    /\ ret.err = ErrRegistryPreviouslyInitialized

\* C23: with the registry bound and the server reachable, RegisterController
\* with an id from GetID succeeds; a ControllerCheckin on the registered id
\* succeeds as long as no other writer has written the id's key and the key
\* has not expired since the id's last successful create or update;
\* DeregisterController succeeds. The id holds the revision its last
\* successful create or update returned: a success stores the new revision,
\* a failure leaves the id as it was.
C23_Lifecycle ==
    /\ [](~disturbed /\ kv.entry.live => kv.entry.rev = id.kvVersion)
    /\ [][/\ registry # NilRegistry /\ kv.up /\ ~disturbed
             /\ RegisterController /\ id.kvVersion = 0
             => ret'.err = NoErr]_vars
    /\ [][/\ registry # NilRegistry /\ kv.up /\ ~disturbed
             /\ ControllerCheckin /\ id.kvVersion > 0 /\ kv.entry.live
             => ret'.err = NoErr]_vars
    /\ [][RegisterController \/ ControllerCheckin =>
            IF ret'.err = NoErr
            THEN /\ id'.kvVersion = kv.seq + 1
                 /\ kv'.entry = Entry(id'.kvVersion, TRUE, FALSE)
                 /\ [id' EXCEPT !.kvVersion = 0] = [id EXCEPT !.kvVersion = 0]
            ELSE id' = id /\ kv' = kv]_vars
    /\ [][registry # NilRegistry /\ kv.up /\ DeregisterController =>
            ret'.err = NoErr /\ ~kv'.entry.live /\ id' = id]_vars

\* the id was registered, checked in twice and deregistered, each call
\* succeeding
C23_Witness ==
    /\ ret.op = "DeregisterController" /\ ret.err = NoErr
    /\ ~disturbed
    /\ id.kvVersion = 3
    /\ kv.seq = 4 /\ kv.entry = Entry(4, FALSE, FALSE)

\* C24: for every application name app and id = GetID(app),
\* ControllerIDFromString(id.String()) returns no error and an id with the
\* application name and the UUID of id.
C24_IDRoundTrip ==
    ret.op = "ControllerIDFromString" =>
        /\ ret.err = NoErr
        /\ ret.val.appName = id.appName
        /\ ret.val.uuid = id.uuid

\* ------------------------------------------------ events: NATS parameters

\* a configuration with stream parameters, not yet validated
InitNats ==
    /\ req = MkRequest(EmptyString, BaseToken)
    /\ scopes = << >>
    /\ mws = << >>
    /\ chain = << >>
    /\ cons = NoCall
    /\ InitCommon
    /\ registry = NilRegistry
    /\ kv = Server(TRUE, FALSE, FALSE, 0, NoEntry, 0)
    /\ id = NoID
    /\ ret = NoRet
    /\ disturbed = FALSE
    /\ stream \in StreamOptions

\* o.validateStreamParameters()
ValidateStreamParameters ==
    /\ ret.op = ""
    /\ LET r == validateStreamParameters(stream)
       IN  /\ ret' = Ret("validateStreamParameters", r.err, FALSE, NoID, 0)
           /\ stream' = r.stream
    /\ UNCHANGED << registry, kv, id, disturbed >>
    /\ UNCHANGED authVars

NextNats == ValidateStreamParameters

SpecNats == InitNats /\ [][NextNats]_vars

\* C25: every error of the validation of the stream parameters satisfies
\* errors.Is(err, ErrNatsConfig), and the validation fails for a Retention
\* that is none of workQueue, limits and interest (the empty one stands for
\* limits), for an empty Name and for an empty list of Subjects.
C25_StreamErrorsAreConfigErrors ==
    ret.op = "validateStreamParameters" =>
        /\ ret.err # NoErr => ErrorsIs(ret.err, ErrNatsConfig)
        /\ ret.err # NoErr <=>
            \/ stream.Retention \notin {"workQueue", "limits", "interest"}
            \/ stream.Name = ""
            \/ Len(stream.Subjects) = 0

\* ------------------------------------------- claims on the header and roles

\* the parts of a string between runs of spaces
Fields(s) == SelectSeq(Split(s, " "), LAMBDA p : p # EmptyString)

\* exactly two parts, the first of them "bearer" in any letter case
TwoPartBearer(h) ==
    /\ Len(Fields(h)) = 2
    /\ ToLower(Fields(h)[1]) = << "b", "e", "a", "r", "e", "r" >>

\* C26: VerifyToken refuses every non-empty Authorization header that is not
\* made of exactly two parts separated by spaces, the first of them "bearer"
\* in any letter case, with the authentication error "invalid authorization
\* header"; only headers of that form reach the parsing of the token.
C26_HeaderFormat ==
    [][VerifyTokenStep =>
        /\ req.hdr # EmptyString /\ ~TwoPartBearer(req.hdr) =>
            /\ vt'.err = NewAuthenticationError("invalid authorization header, expected format: \"Bearer token\"")
            /\ vt'.steps = << "header", "format" >>
        /\ Len(vt'.steps) > 2 => TwoPartBearer(req.hdr)]_vars

\* C27: the extraction of the roles never fails and never ends the
\* verification: when VerifyToken reaches it, it returns without error, with
\* the roles claim split on spaces when the claim is a string, with the list
\* when it is a list of strings, and with no roles for a claim of any other
\* shape: absent, another type, or a list with an element that is no string.
C27_RoleExtractionNeverFails ==
    [][VerifyTokenStep /\ Len(vt'.steps) = Len(CheckOrder) + 1 =>
        LET v == ClaimValue(req.tok, mws[1].cfg.RolesClaim)
            strings == v.t = "list" /\ \A i \in 1..Len(v.l) : v.l[i].isStr
        IN  /\ ~vt'.panic /\ ~crashed'
            /\ vt'.err = NoErr
            /\ vt'.cm.Roles =
                IF v.t = "string" THEN Split(v.s, " ")
                ELSE IF strings THEN [i \in 1..Len(v.l) |-> v.l[i].s]
                ELSE << >>]_vars

\* ------------------------------------------- claims on the JWKS refresh

\* C30: a refresh that fails (request error, timeout, a status other than
\* 200, a body that cannot be decoded as a key set) leaves the cached key set
\* as it was: every key id that was in the cache is still in it, and the
\* lookup that made the refresh ends with not-found.
C30_FailedRefreshKeepsCache ==
    [][KeyLookupStep /\ vt'.fetches = 1 /\ mws[1].endpoint.status # "ok" =>
        /\ vt'.err = NewInvalidSigningKeyError
        /\ mws'[1].cachedJWKS = mws[1].cachedJWKS
        /\ \A kid \in 1..MaxKid :
            HasKid(mws[1].cachedJWKS, kid) => HasKid(mws'[1].cachedJWKS, kid)]_vars

\* ------------------------------------- JWKS refresh under concurrent requests

\* a Middleware with a JWKS URI, its cache filled, that serves requests in
\* several goroutines; the endpoint now answers with another key document
InitRefresh ==
    /\ req = MkRequest(HeaderBearer, BaseToken)
    /\ scopes = << >>
    /\ chain = << >>
    /\ cons = NoCall
    /\ \E c \in KeySets \ { << >> }, d \in KeySets \ { << >> } :
        mws = << SetupVerifier(DefaultCfg,
                    [JWKS |-> << >>, JWKSURI |-> JWKSURI1, cache |-> c,
                     endpoint |-> Endpoint("ok", d)]) >>
    /\ InitCommon
    /\ EventsIdle

\* refreshJWKS of one request: the GET is answered with 200 and Decode begins
RefreshGet ==
    /\ refreshing.pc = "idle"
    /\ refreshing' = Refreshing("decode", 0, mws[1].cachedJWKS)
    /\ UNCHANGED << req, scopes, mws, chain, idx, ctx, handlerRan, crashed, ran, observed >>
    /\ UNCHANGED << pipelineVars, composerVars, configVars, eventsVars >>

\* Decode(&m.cachedJWKS): the next key of the document is decoded into the
\* cached slice in place, the slice extended when it is too short
RefreshDecodeKey ==
    /\ refreshing.pc = "decode"
    /\ refreshing.i < Len(mws[1].endpoint.doc)
    /\ LET i == refreshing.i + 1
           cache == mws[1].cachedJWKS
           key == mws[1].endpoint.doc[i]
       IN  mws' = [mws EXCEPT ![1].cachedJWKS =
                     IF i <= Len(cache) THEN [cache EXCEPT ![i] = key]
                     ELSE Append(cache, key)]
    /\ refreshing' = [refreshing EXCEPT !.i = @ + 1]
    /\ UNCHANGED << req, scopes, chain, idx, ctx, handlerRan, crashed, ran, observed >>
    /\ UNCHANGED << pipelineVars, composerVars, configVars, eventsVars >>

\* the end of the array: the slice is cut to the keys decoded
RefreshDecodeEnd ==
    /\ refreshing.pc = "decode"
    /\ refreshing.i = Len(mws[1].endpoint.doc)
    /\ mws' = [mws EXCEPT ![1].cachedJWKS = SubSeq(@, 1, refreshing.i)]
    /\ refreshing' = [refreshing EXCEPT !.pc = "done"]
    /\ UNCHANGED << req, scopes, chain, idx, ctx, handlerRan, crashed, ran, observed >>
    /\ UNCHANGED << pipelineVars, composerVars, configVars, eventsVars >>

\* getJWKS of another request: m.cachedJWKS.Key(kid) reads the cached slice,
\* which no lock protects
ConcurrentLookup ==
    /\ observed' = [set |-> TRUE, keys |-> mws[1].cachedJWKS]
    /\ observed' # observed
    /\ UNCHANGED << req, scopes, mws, chain, idx, ctx, handlerRan, crashed, ran, refreshing >>
    /\ UNCHANGED << pipelineVars, composerVars, configVars, eventsVars >>

NextRefresh ==
    \/ RefreshGet
    \/ RefreshDecodeKey
    \/ RefreshDecodeEnd
    \/ ConcurrentLookup

SpecRefresh == InitRefresh /\ [][NextRefresh]_vars

\* C28: a lookup of another request that runs while a refresh is in progress
\* reads either the whole key set from before the refresh or the whole key
\* set of the fetched document, never a mixture of the two.
C28_LookupSeesWholeKeySet ==
    observed.set =>
        \/ observed.keys = mws[1].endpoint.doc
        \/ observed.keys = IF refreshing.pc = "idle" THEN mws[1].cachedJWKS
                           ELSE refreshing.old

\* --------------------------------------------- claims on the empty composer

\* C29: the composer lets a request proceed only if at least one of its
\* verifiers returned success for the request, for every number of verifiers;
\* a composer without verifiers lets no request proceed.
C29_ProceedsOnlyOnSuccess ==
    Decided /\ ~crashed /\ ~ctx.aborted =>
        \E i \in 1..Len(mws) : gor[i].pc = "done" /\ gor[i].err = NoErr

====
